---- MODULE Spec2Model ----
(***************************************************************************)
(* School administration portal (src/App.tsx): the remote student store,   *)
(* the roster subscription, the handlers of the App component and its      *)
(* reconciliation effects, as a state machine.                             *)
(*                                                                         *)
(* One browser client is modelled in full.  Other clients running the same *)
(* program are modelled by the remote writes their handlers issue          *)
(* (RemoteRegister, RemoteDelete).  A remote call is split into the call   *)
(* (the handler up to its await), the moment the store applies or rejects  *)
(* it, and the continuation after the await.  React's passive effects are  *)
(* one step, RunEffects, that runs every effect whose dependencies changed *)
(* against the state of the last render; no handler runs while effects are *)
(* pending.                                                                *)
(***************************************************************************)
EXTENDS Integers, Sequences, FiniteSets, TLC

\* ---------------------------------------------------------------- bounds
TOTAL_CLASSES == 10

MaxAssignments == 2

\* Handlers of this client that may be awaiting a remote call at the same time.
MaxInFlight == 1

MaxSnapshots == 3

\* Attendance saves the admin submits in a run.
MaxSaves == 3

\* Error events the subscription delivers in a run.
MaxErrors == 2

\* ---------------------------------------------------------------- values
RegNos == {"CS001", "CS002"}

Names == {"Asha", "Ben"}

\* The order a.regNo.localeCompare(b.regNo) puts the registration numbers in.
RegOrder == <<"CS001", "CS002", "CS003">>

None == <<>>

Some(v) == <<v>>

IsSome(o) == o # <<>>

\* typeof x === 'number' (or 'boolean', 'string'): the field is present with that type.
Val(o) == o[1]

Min(a, b) == IF a < b THEN a ELSE b

Max(a, b) == IF a > b THEN a ELSE b

\* The number value NaN (typeof NaN === 'number'), encoded by an integer that is
\* no field value of the model.  Comparisons with NaN are false, and Math.max,
\* Math.min and Math.round return NaN when an argument is NaN.
NaN == -1000

IsNaN(x) == x = NaN

MathMax(a, b) == IF IsNaN(a) \/ IsNaN(b) THEN NaN ELSE Max(a, b)

MathMin(a, b) == IF IsNaN(a) \/ IsNaN(b) THEN NaN ELSE Min(a, b)

RECURSIVE SeqFilter(_, _)
SeqFilter(s, keep) ==
  IF s = <<>> THEN <<>>
  ELSE IF Head(s) \in keep THEN <<Head(s)>> \o SeqFilter(Tail(s), keep)
       ELSE SeqFilter(Tail(s), keep)

Range(s) == {s[i] : i \in 1..Len(s)}

\* ------------------------------------------------------- canonical records
NullStudent ==
  [name |-> "", regNo |-> "", attendedClasses |-> 0, totalClasses |-> 0,
   pendingAssignments |-> 0, isBlocked |-> FALSE, assignments |-> <<>>,
   messages |-> <<>>]

NoUser == [role |-> "none", student |-> NullStudent]

AdminUser == [role |-> "admin", student |-> NullStudent]

StudentUser(s) == [role |-> "student", student |-> s]

\* Identifiers are numbers here; 0 stands for a missing or blank id, and GenId for
\* the identifier makeAssignmentId or makeMessageId generates in its place.
GenId == 99

\* A variant that drops the fraction: floor(x).
FloorDiv(num, den) == num \div den

\* Math.round(x) for x = num / den, den > 0: floor(x + 1/2).
RoundDiv(num, den) == (2 * num + den) \div (2 * den)

\* new Date(s).toISOString(): throws RangeError on a string that is no date.
DateThrows(s) == s \in {"garbage", "  "}

\* typeof s === 'string' && s ? new Date(s).toISOString() : new Date().toISOString()
NormalizeDate(s) == IF s = "" THEN "now" ELSE s

normalizeAssignment(assignment, genId) ==
  [id |-> IF assignment.id # 0 THEN assignment.id ELSE genId,
   dueDate |-> NormalizeDate(assignment.dueDate),
   status |-> IF assignment.status = "submitted" THEN "submitted" ELSE "pending",
   submissionUrl |-> assignment.submissionUrl,
   submissionName |-> assignment.submissionName,
   submittedAt |-> assignment.submittedAt]

normalizeMessage(message, genId) ==
  [id |-> IF message.id # 0 THEN message.id ELSE genId,
   createdAt |-> NormalizeDate(message.createdAt),
   sender |-> "admin"]

\* A variant that adds the fallback to the count.
getPendingAssignmentsCountPlusFallback(assignments, fallback) ==
  fallback
  + Cardinality({i \in 1..Len(assignments) : assignments[i].status # "submitted"})

getPendingAssignmentsCount(assignments, fallback) ==
  IF Len(assignments) = 0 THEN fallback
  ELSE Cardinality({i \in 1..Len(assignments) : assignments[i].status # "submitted"})

\* normalizeStudentData raises when a stored date does not parse.
NormalizeThrows(data) ==
  \/ \E i \in 1..Len(data.assignments) : DateThrows(data.assignments[i].dueDate)
  \/ \E i \in 1..Len(data.messages) : DateThrows(data.messages[i].createdAt)

normalizeStudentData(data, fallbackRegNo, genId) ==
  LET totalClasses ==
        IF /\ IsSome(data.totalClasses)
           /\ ~IsNaN(Val(data.totalClasses))
           /\ Val(data.totalClasses) > 0
        THEN Val(data.totalClasses) ELSE TOTAL_CLASSES
      attendedRaw ==
        IF IsSome(data.attendedClasses) THEN Val(data.attendedClasses)
        ELSE IF IsSome(data.attendance)
             THEN IF IsNaN(Val(data.attendance)) THEN NaN
                  ELSE RoundDiv(Val(data.attendance) * totalClasses, 100)
             ELSE 0
      assignments ==
        [i \in 1..Len(data.assignments) |-> normalizeAssignment(data.assignments[i], genId)]
      messages ==
        [i \in 1..Len(data.messages) |-> normalizeMessage(data.messages[i], genId)]
  IN [name |-> IF IsSome(data.name) THEN Val(data.name) ELSE "",
      regNo |-> IF IsSome(data.regNo) THEN Val(data.regNo) ELSE fallbackRegNo,
      attendedClasses |-> MathMin(MathMax(attendedRaw, 0), totalClasses),
      totalClasses |-> totalClasses,
      pendingAssignments |->
        IF IsSome(data.pendingAssignments) THEN Val(data.pendingAssignments)
        ELSE getPendingAssignmentsCount(assignments, 0),
      isBlocked |-> IF IsSome(data.isBlocked) THEN Val(data.isBlocked) ELSE FALSE,
      assignments |-> assignments,
      messages |-> messages]

\* A variant that takes every total to be ten classes.
getAttendancePercentageOfTen(student) == student.attendedClasses * 10

getAttendancePercentage(student) ==
  IF student.totalClasses = 0 THEN 0
  ELSE IF IsNaN(student.attendedClasses) THEN NaN
  ELSE RoundDiv(student.attendedClasses * 100, student.totalClasses)

\* The document setDoc or updateDoc stores for a canonical record.
ToDoc(s) ==
  [name |-> Some(s.name), regNo |-> Some(s.regNo),
   attendedClasses |-> Some(s.attendedClasses), attendance |-> None,
   totalClasses |-> Some(s.totalClasses),
   pendingAssignments |-> Some(s.pendingAssignments),
   isBlocked |-> Some(s.isBlocked), assignments |-> s.assignments,
   messages |-> s.messages]

\* A variant of the registration record that starts with one attended class.
NewStudentAttended(name, regNo) ==
  [name |-> name, regNo |-> regNo, attendedClasses |-> 1,
   totalClasses |-> TOTAL_CLASSES, pendingAssignments |-> 0, isBlocked |-> FALSE,
   assignments |-> <<>>, messages |-> <<>>]

NewStudent(name, regNo) ==
  [name |-> name, regNo |-> regNo, attendedClasses |-> 0,
   totalClasses |-> TOTAL_CLASSES, pendingAssignments |-> 0, isBlocked |-> FALSE,
   assignments |-> <<>>, messages |-> <<>>]


\* ------------------------------------------------------------------ state
VARIABLES
  store,                  \* remote collection 'students': document id -> raw document
  blobs,                  \* remote object store: uploaded <<regNo, assignmentId>> paths
  students,               \* useState students: the roster
  page,                   \* useState page
  currentUser,            \* useState currentUser
  selectedStudent,        \* useState selectedStudent
  isAttendanceModalOpen, attendanceSelections, attendanceError, isSavingAttendance,
  studentToDelete, isDeletingStudent, deleteError,
  assignmentModal, assignmentUploadFile, assignmentUploadError,
  assignmentUploadSuccess, isUploadingAssignment,
  isAssignmentFormVisible, assignmentDraft, assignmentFormError, isSavingAssignment,
  isMessageFormVisible, messageDraft, messageFormError, isSavingMessage,
  login,                  \* handleStudentLogin in flight, and its last return value
  attOp,                  \* handleSubmitAttendance in flight
  delOp,                  \* handleConfirmDeleteStudent in flight
  upOp,                   \* handleSubmitAssignmentUpload in flight
  asgOp,                  \* handleCreateAssignment in flight
  msgOp,                  \* handleCreateMessage in flight
  writes,                 \* updateDoc calls in flight that no continuation waits for
  idsMade,                \* identifiers makeAssignmentId and makeMessageId have made
  pending,                \* effects whose dependencies changed in the last render
  delivered,              \* snapshot events the subscription has delivered
  published,              \* setStudents calls of the snapshot callback
  lastPublished,          \* the roster of the last setStudents call      
  errorLog,               \* console.error calls of the subscription's error callback
  deletedDocs             \* ids of the documents deleted from the store so far

storeVars == <<store, blobs>>

sessVars == <<page, currentUser>>

attVars ==
  <<isAttendanceModalOpen, attendanceSelections, attendanceError, isSavingAttendance>>

delVars == <<studentToDelete, isDeletingStudent, deleteError>>

modalVars ==
  <<assignmentModal, assignmentUploadFile, assignmentUploadError,
    assignmentUploadSuccess, isUploadingAssignment>>

formVars ==
  <<isAssignmentFormVisible, assignmentDraft, assignmentFormError, isSavingAssignment,
    isMessageFormVisible, messageDraft, messageFormError, isSavingMessage>>

opVars == <<login, attOp, delOp, upOp, asgOp, msgOp, writes, idsMade>>

histVars == <<delivered, published, lastPublished, errorLog, deletedDocs>>

vars ==
  <<storeVars, students, sessVars, selectedStudent, attVars, delVars, modalVars,
    formVars, opVars, pending, histVars>>

\* ------------------------------------------------------------ store helpers
EmptyStore == [r \in {} |-> NullStudent]

Put(st, k, d) == [r \in DOMAIN st \cup {k} |-> IF r = k THEN d ELSE st[r]]

Remove(st, k) == [r \in DOMAIN st \ {k} |-> st[r]]

\* updateDoc(doc(db, 'students', k), fields): fails when the document does not exist.
UpdateOk(st, k) == k \in DOMAIN st

RegRank(r) == CHOOSE i \in 1..Len(RegOrder) : RegOrder[i] = r

\* snapshot.docs, in document id order.
SnapshotDocs(st) ==
  SeqFilter([i \in 1..Len(RegOrder) |-> RegOrder[i]], DOMAIN st)

RECURSIVE InsertByRegNo(_, _)
InsertByRegNo(sorted, s) ==
  IF sorted = <<>> THEN <<s>>
  ELSE IF RegRank(s.regNo) < RegRank(Head(sorted).regNo)
       THEN <<s>> \o sorted
       ELSE <<Head(sorted)>> \o InsertByRegNo(Tail(sorted), s)

\* .sort((a, b) => a.regNo.localeCompare(b.regNo)): stable.
RECURSIVE SortByRegNo(_)
SortByRegNo(list) ==
  IF list = <<>> THEN <<>>
  ELSE InsertByRegNo(SortByRegNo(SubSeq(list, 1, Len(list) - 1)), list[Len(list)])

\* The roster the snapshot callback computes from the documents of a snapshot.
FetchedStudents(st, genId) ==
  LET ids == SnapshotDocs(st)
  IN SortByRegNo([i \in 1..Len(ids) |-> normalizeStudentData(st[ids[i]], ids[i], genId)])

SnapshotThrows(st) == \E k \in DOMAIN st : NormalizeThrows(st[k])

\* students.find(s => s.regNo === regNo); NullStudent stands for undefined.
Find(list, regNo) ==
  IF \E i \in 1..Len(list) : list[i].regNo = regNo
  THEN list[CHOOSE i \in 1..Len(list) :
              /\ list[i].regNo = regNo
              /\ \A j \in 1..(i - 1) : list[j].regNo # regNo]
  ELSE NullStudent

RosterRegNos(list) == {list[i].regNo : i \in 1..Len(list)}

\* ------------------------------------------------------------ initial state
NoModal == [studentRegNo |-> "", assignmentId |-> 0]

EmptyAssignmentDraft == [title |-> "", dueDate |-> ""]

EmptyMessageDraft == [title |-> "", body |-> ""]

IdleLogin == [phase |-> "idle", name |-> "", regNo |-> "", result |-> "none"]

IdleAtt == [phase |-> "idle", todo |-> <<>>, done |-> {}, failed |-> {}, saves |-> 0]

IdleDel == [phase |-> "idle", regNo |-> "", ownSession |-> FALSE]

IdleUp == [phase |-> "idle", regNo |-> "", assignmentId |-> 0, assignments |-> <<>>]

IdleAsg == [phase |-> "idle", regNo |-> "", assignments |-> <<>>]

IdleMsg == [phase |-> "idle", regNo |-> "", messages |-> <<>>]

\* Remote calls of this client that have not settled, counted by handler.
InFlight ==
  (IF login.phase = "idle" THEN 0 ELSE 1) + (IF attOp.phase = "idle" THEN 0 ELSE 1)
  + (IF delOp.phase = "idle" THEN 0 ELSE 1) + (IF upOp.phase = "idle" THEN 0 ELSE 1)
  + (IF asgOp.phase = "idle" THEN 0 ELSE 1) + (IF msgOp.phase = "idle" THEN 0 ELSE 1)
  + Cardinality(writes)

\* Documents the store may hold when the client starts.
InitDocs ==
  {ToDoc([NewStudent("Asha", "CS001") EXCEPT !.attendedClasses = 9]),
   ToDoc([NewStudent("Asha", "CS001") EXCEPT !.attendedClasses = 10,
                                             !.totalClasses = 11])}

InitStores == {EmptyStore} \cup {Put(EmptyStore, "CS001", d) : d \in InitDocs}

\* A store with no student, or with one the program registered earlier.
RegisteredStores ==
  {EmptyStore, Put(EmptyStore, "CS001", ToDoc(NewStudent("Asha", "CS001")))}

InitClient ==
  /\ blobs = {}
  /\ students = <<>>
  /\ page = "Home"
  /\ currentUser = NoUser
  /\ selectedStudent = NullStudent
  /\ isAttendanceModalOpen = FALSE
  /\ attendanceSelections = <<>>
  /\ attendanceError = FALSE
  /\ isSavingAttendance = FALSE
  /\ studentToDelete = NullStudent
  /\ isDeletingStudent = FALSE
  /\ deleteError = FALSE
  /\ assignmentModal = NoModal
  /\ assignmentUploadFile = "none"
  /\ assignmentUploadError = "none"
  /\ assignmentUploadSuccess = FALSE
  /\ isUploadingAssignment = FALSE
  /\ isAssignmentFormVisible = FALSE
  /\ assignmentDraft = EmptyAssignmentDraft
  /\ assignmentFormError = "none"
  /\ isSavingAssignment = FALSE
  /\ isMessageFormVisible = FALSE
  /\ messageDraft = EmptyMessageDraft
  /\ messageFormError = "none"
  /\ isSavingMessage = FALSE
  /\ login = IdleLogin
  /\ attOp = IdleAtt
  /\ delOp = IdleDel
  /\ upOp = IdleUp
  /\ asgOp = IdleAsg
  /\ msgOp = IdleMsg
  /\ writes = {}
  /\ idsMade = 0
  /\ pending = {}
  /\ delivered = 0
  /\ published = 0
  /\ lastPublished = <<>>
  /\ errorLog = 0
  /\ deletedDocs = {}

Init ==
  /\ store \in InitStores
  /\ InitClient

InitRegistered ==
  /\ store \in RegisteredStores
  /\ InitClient

\* Documents other writers of the collection may have stored: one whose regNo
\* field is not its id, and one with a message date that is no date.
ForeignDocs ==
  {[ToDoc(NewStudent("Asha", "CS001")) EXCEPT !.regNo = Some("CS003")],
   [ToDoc(NewStudent("Asha", "CS001")) EXCEPT
      !.messages = <<[id |-> 7, createdAt |-> "garbage", sender |-> "admin"]>>]}

InitSync ==
  /\ store \in RegisteredStores \cup {Put(EmptyStore, "CS001", d) : d \in ForeignDocs}
  /\ InitClient

\* A student an admin gave one assignment in an earlier run of the program.
AssignedStudent ==
  [NewStudent("Asha", "CS001") EXCEPT
     !.assignments = <<[id |-> 7, dueDate |-> "iso", status |-> "pending",
                        submissionUrl |-> None, submissionName |-> None,
                        submittedAt |-> None]>>,
     !.pendingAssignments = 1]

InitAssigned ==
  /\ store = Put(EmptyStore, "CS001", ToDoc(AssignedStudent))
  /\ InitClient


\* ----------------------------------------------------------------- effects
\* The effects whose dependency list changed between this render and the next.
Triggered ==
  (IF students' # students \/ selectedStudent' # selectedStudent
   THEN {"selected"} ELSE {})
  \cup (IF selectedStudent' # selectedStudent THEN {"forms"} ELSE {})
  \cup (IF students' # students \/ currentUser' # currentUser
        THEN {"session"} ELSE {})
  \cup (IF students' # students \/ isAttendanceModalOpen' # isAttendanceModalOpen
        THEN {"attendance"} ELSE {})
  \cup (IF students' # students \/ studentToDelete' # studentToDelete
        THEN {"delete"} ELSE {})
  \cup (IF \/ students' # students
           \/ assignmentModal' # assignmentModal
           \/ isUploadingAssignment' # isUploadingAssignment
        THEN {"assignmentModal"} ELSE {})

\* a !== b on two numbers: NaN differs from every number, itself included.
StrictNeq(a, b) == a # b \/ IsNaN(a) \/ IsNaN(b)

\* The comparison both record reconcilers make between the roster record and the held one.
\* A variant of the comparison that leaves the block flag out.
HasChangesButBlocked(updated, held) ==
  \/ StrictNeq(updated.attendedClasses, held.attendedClasses)
  \/ StrictNeq(updated.totalClasses, held.totalClasses)
  \/ StrictNeq(updated.pendingAssignments, held.pendingAssignments)
  \/ updated.name # held.name
  \/ updated.assignments # held.assignments
  \/ updated.messages # held.messages

HasChanges(updated, held) ==
  \/ StrictNeq(updated.attendedClasses, held.attendedClasses)
  \/ StrictNeq(updated.totalClasses, held.totalClasses)
  \/ StrictNeq(updated.pendingAssignments, held.pendingAssignments)
  \/ updated.isBlocked # held.isBlocked
  \/ updated.name # held.name
  \/ updated.assignments # held.assignments
  \/ updated.messages # held.messages

\* useEffect [students, selectedStudent]: the next selectedStudent.
SelectedStudentEffect ==
  IF selectedStudent = NullStudent THEN selectedStudent
  ELSE LET updatedStudent == Find(students, selectedStudent.regNo)
       IN IF updatedStudent = NullStudent THEN NullStudent
          ELSE IF HasChanges(updatedStudent, selectedStudent) THEN updatedStudent
               ELSE selectedStudent

\* A variant of the effect that also ends the session of a blocked student.
SessionEffectEndingBlocked ==
  IF currentUser.role # "student" THEN <<currentUser, page>>
  ELSE LET updated == Find(students, currentUser.student.regNo)
       IN IF updated = NullStudent \/ updated.isBlocked THEN <<NoUser, "StudentLogin">>
          ELSE IF HasChanges(updated, currentUser.student)
               THEN <<StudentUser(updated), page>>
               ELSE <<currentUser, page>>

\* useEffect [students, currentUser]: the next <<currentUser, page>>.
SessionEffect ==
  IF currentUser.role # "student" THEN <<currentUser, page>>
  ELSE LET updated == Find(students, currentUser.student.regNo)
       IN IF updated = NullStudent THEN <<NoUser, "StudentLogin">>
          ELSE IF HasChanges(updated, currentUser.student)
               THEN <<StudentUser(updated), page>>
               ELSE <<currentUser, page>>

\* The session effect calls setCurrentUser({ ...updated, role: 'student' }): the
\* session is a new object, whether or not its fields differ from the held ones,
\* and currentUser is a dependency of the effect.
SessionReplaced ==
  /\ currentUser.role = "student"
  /\ Find(students, currentUser.student.regNo) # NullStudent
  /\ HasChanges(Find(students, currentUser.student.regNo), currentUser.student)

\* A variant of the effect that keeps the entries of students no longer listed.
AttendanceEffectKeepingGone ==
  IF ~isAttendanceModalOpen THEN attendanceSelections
  ELSE [r \in RosterRegNos(students) \cup DOMAIN attendanceSelections |->
          IF r \in DOMAIN attendanceSelections THEN attendanceSelections[r] ELSE FALSE]

\* useEffect [students, isAttendanceModalOpen]: the next attendanceSelections.
AttendanceEffect ==
  IF ~isAttendanceModalOpen THEN attendanceSelections
  ELSE [r \in RosterRegNos(students) |->
          IF r \in DOMAIN attendanceSelections THEN attendanceSelections[r] ELSE FALSE]

\* A variant of the effect that dismisses the confirmation and leaves its flags.
DeleteEffectKeepingFlags ==
  IF studentToDelete # NullStudent /\ studentToDelete.regNo \notin RosterRegNos(students)
  THEN <<NullStudent, deleteError, isDeletingStudent>>
  ELSE <<studentToDelete, deleteError, isDeletingStudent>>

\* useEffect [students, studentToDelete]: the next <<studentToDelete, deleteError,
\* isDeletingStudent>>.
DeleteEffect ==
  IF studentToDelete # NullStudent /\ studentToDelete.regNo \notin RosterRegNos(students)
  THEN <<NullStudent, FALSE, FALSE>>
  ELSE <<studentToDelete, deleteError, isDeletingStudent>>

\* A variant of handleCloseAssignmentModal without the early return.
CloseAssignmentModalAlways == <<NoModal, "none", "none", FALSE>>

\* handleCloseAssignmentModal: the next <<assignmentModal, assignmentUploadFile,
\* assignmentUploadError, assignmentUploadSuccess>>.
CloseAssignmentModalResult ==
  IF isUploadingAssignment
  THEN <<assignmentModal, assignmentUploadFile, assignmentUploadError,
         assignmentUploadSuccess>>
  ELSE <<NoModal, "none", "none", FALSE>>

\* useEffect [assignmentModal, students, handleCloseAssignmentModal].
AssignmentModalEffect ==
  IF assignmentModal = NoModal
  THEN <<assignmentModal, assignmentUploadFile, assignmentUploadError,
         assignmentUploadSuccess>>
  ELSE LET student == Find(students, assignmentModal.studentRegNo)
       IN IF student = NullStudent THEN CloseAssignmentModalResult
          ELSE IF \E i \in 1..Len(student.assignments) :
                    student.assignments[i].id = assignmentModal.assignmentId
               THEN <<assignmentModal, assignmentUploadFile, assignmentUploadError,
                      assignmentUploadSuccess>>
               ELSE CloseAssignmentModalResult

\* A variant of the effect that leaves the two saving flags as they are.
FormResetEffectKeepingSaving ==
  <<FALSE, EmptyAssignmentDraft, "none", isSavingAssignment, FALSE, EmptyMessageDraft,
    "none", isSavingMessage>>

\* useEffect [selectedStudent]: both forms are reset.
FormResetEffect ==
  <<FALSE, EmptyAssignmentDraft, "none", FALSE, FALSE, EmptyMessageDraft, "none", FALSE>>

\* One flush of the passive effects of the last render.
RunEffects ==
  /\ pending # {}
  /\ selectedStudent' =
       IF "selected" \in pending THEN SelectedStudentEffect ELSE selectedStudent
  /\ LET f == IF "forms" \in pending THEN FormResetEffect ELSE formVars
     IN /\ isAssignmentFormVisible' = f[1]
        /\ assignmentDraft' = f[2]
        /\ assignmentFormError' = f[3]
        /\ isSavingAssignment' = f[4]
        /\ isMessageFormVisible' = f[5]
        /\ messageDraft' = f[6]
        /\ messageFormError' = f[7]
        /\ isSavingMessage' = f[8]
  /\ LET u == IF "session" \in pending THEN SessionEffect ELSE <<currentUser, page>>
     IN /\ currentUser' = u[1]
        /\ page' = u[2]
  /\ attendanceSelections' =
       IF "attendance" \in pending THEN AttendanceEffect ELSE attendanceSelections
  /\ LET d == IF "delete" \in pending THEN DeleteEffect
              ELSE <<studentToDelete, deleteError, isDeletingStudent>>
     IN /\ studentToDelete' = d[1]
        /\ deleteError' = d[2]
        /\ isDeletingStudent' = d[3]
  /\ LET m == IF "assignmentModal" \in pending THEN AssignmentModalEffect
              ELSE <<assignmentModal, assignmentUploadFile, assignmentUploadError,
                     assignmentUploadSuccess>>
     IN /\ assignmentModal' = m[1]
        /\ assignmentUploadFile' = m[2]
        /\ assignmentUploadError' = m[3]
        /\ assignmentUploadSuccess' = m[4]
  /\ UNCHANGED <<storeVars, students, isAttendanceModalOpen, attendanceError,
                 isSavingAttendance, isUploadingAssignment, opVars, histVars>>
  /\ pending' =
       Triggered \cup (IF "session" \in pending /\ SessionReplaced
                       THEN {"session"} ELSE {})

\* ------------------------------------------------------------ subscription
\* onSnapshot's next callback, for a snapshot of the store as it is now.
SnapshotCallback(genId) ==
  /\ pending = {}
  /\ students' =
       IF SnapshotThrows(store) THEN students ELSE FetchedStudents(store, genId)

Snapshot ==
  /\ SnapshotCallback(GenId)
  /\ UNCHANGED <<storeVars, sessVars, selectedStudent, attVars, delVars, modalVars,
                 formVars, opVars, histVars>>
  /\ pending' = Triggered

\* The same callback, with the subscription's history recorded: one event
\* delivered, and one roster published unless the callback raised.
SyncSnapshot ==
  /\ delivered < MaxSnapshots
  /\ SnapshotCallback(GenId)
  /\ delivered' = delivered + 1
  /\ published' = IF SnapshotThrows(store) THEN published ELSE published + 1
  /\ lastPublished' =
       IF SnapshotThrows(store) THEN lastPublished ELSE FetchedStudents(store, GenId)
  /\ UNCHANGED <<storeVars, sessVars, selectedStudent, attVars, delVars, modalVars,
                 formVars, opVars, errorLog, deletedDocs>>
  /\ pending' = Triggered

\* A variant of the error callback that empties the roster.
SubscriptionErrorClearing ==
  /\ pending = {}
  /\ errorLog < MaxErrors
  /\ errorLog' = errorLog + 1
  /\ students' = <<>>
  /\ UNCHANGED <<storeVars, sessVars, selectedStudent, attVars, delVars, modalVars,
                 formVars, opVars, delivered, published, lastPublished, deletedDocs>>
  /\ pending' = Triggered

\* onSnapshot's error callback: console.error and nothing else.
SubscriptionError ==
  /\ pending = {}
  /\ errorLog < MaxErrors
  /\ errorLog' = errorLog + 1
  /\ UNCHANGED <<storeVars, students, sessVars, selectedStudent, attVars, delVars,
                 modalVars, formVars, opVars, pending, delivered, published,
                 lastPublished, deletedDocs>>

\* --------------------------------------------------------------- navigation
\* HomePage onSelectRole={setPage}; the login pages' onBack.
SelectRole(p) ==
  /\ pending = {}
  /\ page = "Home"
  /\ page' = p
  /\ UNCHANGED <<storeVars, students, currentUser, selectedStudent, attVars, delVars,
                 modalVars, formVars, opVars, histVars>>
  /\ pending' = Triggered

Back ==
  /\ pending = {}
  /\ page \in {"StudentLogin", "AdminLogin"}
  /\ page' = "Home"
  /\ UNCHANGED <<storeVars, students, currentUser, selectedStudent, attVars, delVars,
                 modalVars, formVars, opVars, histVars>>
  /\ pending' = Triggered

\* ---------------------------------------------------------- student login
\* The <<name, regNo>> pairs typed into the student login form.
LoginInputs ==
  {<<"Asha", "CS001">>, <<"Ben", "CS001">>, <<"Ben", "CS002">>, <<"", "CS001">>,
   <<"Asha", "">>}

\* The students other clients register.
RemoteInputs == {<<"Asha", "CS001">>, <<"Ben", "CS002">>}

\* String.prototype.trim(), on the strings typed into the login form.
Trim(s) ==
  CASE s = " Asha " -> "Asha"
    [] s = " CS001 " -> "CS001"
    [] s = "  " -> ""
    [] OTHER -> s

\* String.prototype.toLowerCase(), on the names of the model.
ToLowerCase(s) ==
  CASE s = "Asha" -> "asha"
    [] s = "Ben" -> "ben"
    [] OTHER -> s

\* handleStudentLogin up to `await getDoc`, or to its return.
StudentLoginCall(name, regNo) ==
  /\ pending = {}
  /\ page = "StudentLogin"
  /\ login.phase = "idle"
  /\ InFlight < MaxInFlight
  /\ LET trimmedName == Trim(name)
         trimmedRegNo == Trim(regNo)
     IN login' =
          IF trimmedName = "" \/ trimmedRegNo = ""
          THEN [IdleLogin EXCEPT !.result = "fill"]
          ELSE [phase |-> "getDoc", name |-> trimmedName, regNo |-> trimmedRegNo,
                result |-> "none"]
  /\ UNCHANGED <<storeVars, students, sessVars, selectedStudent, attVars, delVars,
                 modalVars, formVars, attOp, delOp, upOp, asgOp, msgOp, writes,
                 idsMade, histVars>>
  /\ pending' = Triggered

\* A variant that compares the name before it looks at isBlocked.
StudentLoginReadNameFirst ==
  /\ pending = {}
  /\ login.phase = "getDoc"
  /\ LET existingStudent == normalizeStudentData(store[login.regNo], login.regNo, GenId)
     IN IF login.regNo \in DOMAIN store
        THEN IF NormalizeThrows(store[login.regNo])
             THEN /\ login' = [IdleLogin EXCEPT !.result = "unexpected"]
                  /\ UNCHANGED sessVars
             ELSE IF ToLowerCase(existingStudent.name) # ToLowerCase(login.name)
             THEN /\ login' = [IdleLogin EXCEPT !.result = "mismatch"]
                  /\ UNCHANGED sessVars
             ELSE IF existingStudent.isBlocked
             THEN /\ login' = [IdleLogin EXCEPT !.result = "blocked"]
                  /\ UNCHANGED sessVars
             ELSE /\ login' = [IdleLogin EXCEPT !.result = "ok"]
                  /\ currentUser' = StudentUser(existingStudent)
                  /\ page' = "StudentDashboard"
        ELSE /\ login' = [login EXCEPT !.phase = "setDoc"]
             /\ UNCHANGED sessVars
  /\ UNCHANGED <<storeVars, students, selectedStudent, attVars, delVars, modalVars,
                 formVars, attOp, delOp, upOp, asgOp, msgOp, writes, idsMade,
                 histVars>>
  /\ pending' = Triggered

\* getDoc resolved: the branch on studentSnapshot.exists().
StudentLoginRead ==
  /\ pending = {}
  /\ login.phase = "getDoc"
  /\ LET existingStudent == normalizeStudentData(store[login.regNo], login.regNo, GenId)
     IN IF login.regNo \in DOMAIN store
        THEN IF NormalizeThrows(store[login.regNo])
             THEN /\ login' = [IdleLogin EXCEPT !.result = "unexpected"]
                  /\ UNCHANGED sessVars
             ELSE IF existingStudent.isBlocked
             THEN /\ login' = [IdleLogin EXCEPT !.result = "blocked"]
                  /\ UNCHANGED sessVars
             ELSE IF ToLowerCase(existingStudent.name) # ToLowerCase(login.name)
             THEN /\ login' = [IdleLogin EXCEPT !.result = "mismatch"]
                  /\ UNCHANGED sessVars
             ELSE /\ login' = [IdleLogin EXCEPT !.result = "ok"]
                  /\ currentUser' = StudentUser(existingStudent)
                  /\ page' = "StudentDashboard"
        ELSE /\ login' = [login EXCEPT !.phase = "setDoc"]
             /\ UNCHANGED sessVars
  /\ UNCHANGED <<storeVars, students, selectedStudent, attVars, delVars, modalVars,
                 formVars, attOp, delOp, upOp, asgOp, msgOp, writes, idsMade,
                 histVars>>
  /\ pending' = Triggered

\* getDoc or setDoc rejected: the catch block.
StudentLoginFail ==
  /\ pending = {}
  /\ login.phase \in {"getDoc", "setDoc"}
  /\ login' = [IdleLogin EXCEPT !.result = "unexpected"]
  /\ UNCHANGED <<storeVars, students, sessVars, selectedStudent, attVars, delVars,
                 modalVars, formVars, attOp, delOp, upOp, asgOp, msgOp, writes,
                 idsMade, histVars>>
  /\ pending' = Triggered

\* setDoc(studentRef, newStudent) takes effect in the store: create or replace.
StudentLoginWrite ==
  /\ pending = {}
  /\ login.phase = "setDoc"
  /\ store' = Put(store, login.regNo, ToDoc(NewStudent(login.name, login.regNo)))
  /\ login' = [login EXCEPT !.phase = "written"]
  /\ UNCHANGED <<blobs, students, sessVars, selectedStudent, attVars, delVars,
                 modalVars, formVars, attOp, delOp, upOp, asgOp, msgOp, writes,
                 idsMade, pending, histVars>>

\* The continuation after `await setDoc`.
StudentLoginRegistered ==
  /\ pending = {}
  /\ login.phase = "written"
  /\ currentUser' = StudentUser(NewStudent(login.name, login.regNo))
  /\ page' = "StudentDashboard"
  /\ login' = IdleLogin
  /\ UNCHANGED <<storeVars, students, selectedStudent, attVars, delVars, modalVars,
                 formVars, attOp, delOp, upOp, asgOp, msgOp, writes, idsMade,
                 histVars>>
  /\ pending' = Triggered

\* ------------------------------------------------------ admin login, logout
handleAdminLogin(ok) ==
  /\ pending = {}
  /\ page = "AdminLogin"
  /\ IF ok
     THEN /\ currentUser' = AdminUser
          /\ page' = "AdminDashboard"
     ELSE UNCHANGED sessVars
  /\ UNCHANGED <<storeVars, students, selectedStudent, attVars, delVars, modalVars,
                 formVars, opVars, histVars>>
  /\ pending' = Triggered

\* A variant of handleLogout that ends the session and leaves the page.
handleLogoutKeepingPage ==
  /\ pending = {}
  /\ currentUser.role # "none"
  /\ currentUser' = NoUser
  /\ UNCHANGED <<page, storeVars, students, selectedStudent, attVars, delVars,
                 modalVars, formVars, opVars, histVars>>
  /\ pending' = Triggered

handleLogout ==
  /\ pending = {}
  /\ currentUser.role # "none"
  /\ currentUser' = NoUser
  /\ page' = "Home"
  /\ UNCHANGED <<storeVars, students, selectedStudent, attVars, delVars, modalVars,
                 formVars, opVars, histVars>>
  /\ pending' = Triggered


\* ------------------------------------------------------------ admin dashboard
\* handleToggleBlock up to `await updateDoc`; nothing runs after it but logging.
handleToggleBlock(regNo) ==
  /\ pending = {}
  /\ page = "AdminDashboard"
  /\ regNo \in RosterRegNos(students)
  /\ InFlight < MaxInFlight
  /\ writes' = writes \cup
       {[regNo |-> regNo, field |-> "isBlocked",
         value |-> ~Find(students, regNo).isBlocked]}
  /\ UNCHANGED <<storeVars, students, sessVars, selectedStudent, attVars, delVars,
                 modalVars, formVars, login, attOp, delOp, upOp, asgOp, msgOp,
                 idsMade, histVars>>
  /\ pending' = Triggered

\* updateDoc(ref, {field: value}) on a stored document.
UpdateField(d, field, value) ==
  IF field = "isBlocked" THEN [d EXCEPT !.isBlocked = Some(value)]
  ELSE [d EXCEPT !.attendedClasses = Some(value)]

\* A variant in which the client applies its write to the roster as well.
WriteSettlesIntoRoster(w, ok) ==
  /\ pending = {}
  /\ w \in writes
  /\ writes' = writes \ {w}
  /\ store' = IF ok /\ UpdateOk(store, w.regNo)
              THEN Put(store, w.regNo, UpdateField(store[w.regNo], w.field, w.value))
              ELSE store
  /\ students' = IF SnapshotThrows(store') THEN students
                 ELSE FetchedStudents(store', GenId)
  /\ UNCHANGED <<blobs, sessVars, selectedStudent, attVars, delVars, modalVars,
                 formVars, login, attOp, delOp, upOp, asgOp, msgOp, idsMade, histVars>>
  /\ pending' = Triggered

\* An updateDoc nobody waits for takes effect, or is rejected (no such document,
\* or the network): the store is the only state it can change.
WriteSettles(w, ok) ==
  /\ pending = {}
  /\ w \in writes
  /\ writes' = writes \ {w}
  /\ store' = IF ok /\ UpdateOk(store, w.regNo)
              THEN Put(store, w.regNo, UpdateField(store[w.regNo], w.field, w.value))
              ELSE store
  /\ UNCHANGED <<blobs, students, sessVars, selectedStudent, attVars, delVars,
                 modalVars, formVars, login, attOp, delOp, upOp, asgOp, msgOp,
                 idsMade, pending, histVars>>

handleViewDetails(student) ==
  /\ pending = {}
  /\ page = "AdminDashboard"
  /\ student \in Range(students)
  /\ selectedStudent' = student
  /\ UNCHANGED <<storeVars, students, sessVars, attVars, delVars, modalVars, formVars,
                 opVars, histVars>>
  /\ pending' = Triggered

handleCloseModal ==
  /\ pending = {}
  /\ selectedStudent # NullStudent
  /\ selectedStudent' = NullStudent
  /\ UNCHANGED <<storeVars, students, sessVars, attVars, delVars, modalVars, formVars,
                 opVars, histVars>>
  /\ pending' = Triggered

\* ------------------------------------------------------------ delete student
handleRequestDeleteStudent(student) ==
  /\ pending = {}
  /\ page = "AdminDashboard"
  /\ student \in Range(students)
  /\ studentToDelete' = student
  /\ deleteError' = FALSE
  /\ UNCHANGED <<storeVars, students, sessVars, selectedStudent, attVars,
                 isDeletingStudent, modalVars, formVars, opVars, histVars>>
  /\ pending' = Triggered

handleCancelDeleteStudent ==
  /\ pending = {}
  /\ studentToDelete # NullStudent
  /\ IF isDeletingStudent
     THEN UNCHANGED <<studentToDelete, deleteError>>
     ELSE /\ studentToDelete' = NullStudent
          /\ deleteError' = FALSE
  /\ UNCHANGED <<storeVars, students, sessVars, selectedStudent, attVars,
                 isDeletingStudent, modalVars, formVars, opVars, histVars>>
  /\ pending' = Triggered

\* handleConfirmDeleteStudent up to `await deleteDoc`; the continuation reads the
\* studentToDelete and currentUser of the render the handler was created in.
ConfirmDeleteCall ==
  /\ pending = {}
  /\ studentToDelete # NullStudent
  /\ ~isDeletingStudent
  /\ delOp.phase = "idle"
  /\ InFlight < MaxInFlight
  /\ isDeletingStudent' = TRUE
  /\ deleteError' = FALSE
  /\ delOp' = [phase |-> "sent", regNo |-> studentToDelete.regNo,
               ownSession |-> /\ currentUser.role = "student"
                              /\ currentUser.student.regNo = studentToDelete.regNo]
  /\ UNCHANGED <<storeVars, students, sessVars, selectedStudent, attVars,
                 studentToDelete, modalVars, formVars, login, attOp, upOp, asgOp,
                 msgOp, writes, idsMade,
                 histVars>>
  /\ pending' = Triggered

\* deleteDoc takes effect in the store, or is rejected.
ConfirmDeleteSettles(ok) ==
  /\ pending = {}
  /\ delOp.phase = "sent"
  /\ delOp' = [delOp EXCEPT !.phase = IF ok THEN "deleted" ELSE "rejected"]
  /\ store' = IF ok THEN Remove(store, delOp.regNo) ELSE store
  /\ deletedDocs' = IF ok /\ delOp.regNo \in DOMAIN store
                    THEN deletedDocs \cup {delOp.regNo} ELSE deletedDocs
  /\ UNCHANGED <<blobs, students, sessVars, selectedStudent, attVars, delVars,
                 modalVars, formVars, login, attOp, upOp, asgOp, msgOp, writes,
                 idsMade, pending, delivered, published, lastPublished, errorLog>>

\* The continuation after `await deleteDoc`: try, catch, finally.
ConfirmDeleteDone ==
  /\ pending = {}
  /\ delOp.phase \in {"deleted", "rejected"}
  /\ IF delOp.phase = "deleted"
     THEN /\ IF delOp.ownSession
             THEN /\ currentUser' = NoUser
                  /\ page' = "StudentLogin"
             ELSE UNCHANGED sessVars
          /\ studentToDelete' = NullStudent
          /\ UNCHANGED deleteError
     ELSE /\ deleteError' = TRUE
          /\ UNCHANGED <<sessVars, studentToDelete>>
  /\ isDeletingStudent' = FALSE
  /\ delOp' = IdleDel
  /\ UNCHANGED <<storeVars, students, selectedStudent, attVars, modalVars, formVars,
                 login, attOp, upOp, asgOp, msgOp, writes, idsMade,
                 histVars>>
  /\ pending' = Triggered

\* ---------------------------------------------------------------- attendance
\* useMemo attendanceLocked.
attendanceLocked ==
  /\ Len(students) > 0
  /\ \A i \in 1..Len(students) :
       students[i].attendedClasses >= students[i].totalClasses

handleOpenAttendanceModal ==
  /\ pending = {}
  /\ page = "AdminDashboard"
  /\ Len(students) > 0 /\ ~isSavingAttendance /\ ~attendanceLocked
  /\ attendanceSelections' = [r \in RosterRegNos(students) |-> FALSE]
  /\ attendanceError' = FALSE
  /\ isAttendanceModalOpen' = TRUE
  /\ UNCHANGED <<storeVars, students, sessVars, selectedStudent, isSavingAttendance,
                 delVars, modalVars, formVars, opVars, histVars>>
  /\ pending' = Triggered

handleCloseAttendanceModal ==
  /\ pending = {}
  /\ isAttendanceModalOpen
  /\ isAttendanceModalOpen' = FALSE
  /\ attendanceSelections' = <<>>
  /\ attendanceError' = FALSE
  /\ UNCHANGED <<storeVars, students, sessVars, selectedStudent, isSavingAttendance,
                 delVars, modalVars, formVars, opVars, histVars>>
  /\ pending' = Triggered

\* attendanceSelections[regNo] ?? false
Checked(selections, regNo) == regNo \in DOMAIN selections /\ selections[regNo]

SetSelection(selections, regNo, value) ==
  [r \in DOMAIN selections \cup {regNo} |-> IF r = regNo THEN value ELSE selections[r]]

handleToggleAttendanceSelection(regNo) ==
  /\ pending = {}
  /\ isAttendanceModalOpen
  /\ ~isSavingAttendance
  /\ regNo \in RosterRegNos(students)
  /\ Find(students, regNo).attendedClasses < Find(students, regNo).totalClasses
  /\ attendanceSelections' =
       SetSelection(attendanceSelections, regNo, ~Checked(attendanceSelections, regNo))
  /\ UNCHANGED <<storeVars, students, sessVars, selectedStudent, isAttendanceModalOpen,
                 attendanceError, isSavingAttendance, delVars, modalVars, formVars,
                 opVars, histVars>>
  /\ pending' = Triggered

handleMarkAllPresent ==
  /\ pending = {}
  /\ isAttendanceModalOpen
  /\ ~isSavingAttendance /\ ~attendanceLocked /\ Len(students) > 0
  /\ attendanceSelections' =
       LET open == {r \in RosterRegNos(students) :
                      Find(students, r).attendedClasses < Find(students, r).totalClasses}
       IN [r \in DOMAIN attendanceSelections \cup open |->
             IF r \in open THEN TRUE ELSE attendanceSelections[r]]
  /\ UNCHANGED <<storeVars, students, sessVars, selectedStudent, isAttendanceModalOpen,
                 attendanceError, isSavingAttendance, delVars, modalVars, formVars,
                 opVars, histVars>>
  /\ pending' = Triggered

\* The updateDoc calls handleSubmitAttendance issues: regNo -> attendedClasses written.
AttendanceWrites ==
  LET marked == {r \in DOMAIN attendanceSelections :
                   /\ attendanceSelections[r]
                   /\ Find(students, r) # NullStudent
                   /\ Find(students, r).attendedClasses < Find(students, r).totalClasses}
  IN [r \in marked |->
        Min(Find(students, r).attendedClasses + 1, Find(students, r).totalClasses)]

\* handleSubmitAttendance up to `await Promise.all`.
SubmitAttendanceCall ==
  /\ pending = {}
  /\ isAttendanceModalOpen
  /\ ~isSavingAttendance /\ ~attendanceLocked /\ Len(students) > 0
  /\ attOp.phase = "idle"
  /\ InFlight < MaxInFlight
  /\ attOp.saves < MaxSaves
  /\ attendanceError' = FALSE
  /\ isSavingAttendance' = TRUE
  /\ attOp' = [phase |-> "sent", todo |-> AttendanceWrites, done |-> {}, failed |-> {},
               saves |-> attOp.saves + 1]
  /\ UNCHANGED <<storeVars, students, sessVars, selectedStudent, isAttendanceModalOpen,
                 attendanceSelections, delVars, modalVars, formVars, login, delOp, upOp,
                 asgOp, msgOp, writes, idsMade, histVars>>
  /\ pending' = Triggered

\* One updateDoc of the batch takes effect in the store, or is rejected.
AttendanceWriteSettles(regNo, ok) ==
  /\ pending = {}
  /\ attOp.phase = "sent"
  /\ regNo \in DOMAIN attOp.todo
  /\ LET applies == ok /\ UpdateOk(store, regNo)
     IN /\ store' = IF applies
                    THEN Put(store, regNo,
                             UpdateField(store[regNo], "attendedClasses", attOp.todo[regNo]))
                    ELSE store
        /\ attOp' = [attOp EXCEPT
                       !.todo = [r \in DOMAIN attOp.todo \ {regNo} |-> attOp.todo[r]],
                       !.done = IF applies THEN attOp.done \cup {regNo} ELSE attOp.done,
                       !.failed = IF applies THEN attOp.failed
                                  ELSE attOp.failed \cup {regNo}]
  /\ UNCHANGED <<blobs, students, sessVars, selectedStudent, attVars, delVars, modalVars,
                 formVars, login, delOp, upOp, asgOp, msgOp, writes, idsMade, pending,
                 histVars>>

\* A variant of the continuation that closes the modal in its finally block,
\* whatever the outcome of the batch.
SubmitAttendanceDoneClosing ==
  /\ pending = {}
  /\ attOp.phase = "sent"
  /\ attOp.failed # {} \/ DOMAIN attOp.todo = {}
  /\ isAttendanceModalOpen' = FALSE
  /\ attendanceSelections' = <<>>
  /\ attendanceError' = (attOp.failed # {})
  /\ isSavingAttendance' = FALSE
  /\ writes' = writes \cup
       {[regNo |-> r, field |-> "attendedClasses", value |-> attOp.todo[r]] :
          r \in DOMAIN attOp.todo}
  /\ attOp' = [attOp EXCEPT !.phase = "idle", !.todo = <<>>]
  /\ UNCHANGED <<storeVars, students, sessVars, selectedStudent, delVars, modalVars,
                 formVars, login, delOp, upOp, asgOp, msgOp, idsMade, histVars>>
  /\ pending' = Triggered

\* The continuation after `await Promise.all`: it resumes when every write has
\* succeeded, or as soon as one is rejected (the others stay in flight).
SubmitAttendanceDone ==
  /\ pending = {}
  /\ attOp.phase = "sent"
  /\ attOp.failed # {} \/ DOMAIN attOp.todo = {}
  /\ IF attOp.failed # {}
     THEN /\ attendanceError' = TRUE
          /\ UNCHANGED <<isAttendanceModalOpen, attendanceSelections>>
     ELSE /\ isAttendanceModalOpen' = FALSE
          /\ attendanceSelections' = <<>>
          /\ attendanceError' = FALSE
  /\ isSavingAttendance' = FALSE
  /\ writes' = writes \cup
       {[regNo |-> r, field |-> "attendedClasses", value |-> attOp.todo[r]] :
          r \in DOMAIN attOp.todo}
  /\ attOp' = [attOp EXCEPT !.phase = "idle", !.todo = <<>>]
  /\ UNCHANGED <<storeVars, students, sessVars, selectedStudent, delVars, modalVars,
                 formVars, login, delOp, upOp, asgOp, msgOp, idsMade, histVars>>
  /\ pending' = Triggered

\* ---------------------------------------------------- assignments, messages
\* assignmentModalData (useMemo): is there a student and an assignment to show?
HasModalData ==
  /\ assignmentModal # NoModal
  /\ \E i \in 1..Len(Find(students, assignmentModal.studentRegNo).assignments) :
       Find(students, assignmentModal.studentRegNo).assignments[i].id
         = assignmentModal.assignmentId

isStudentOwnerForAssignmentModal ==
  /\ HasModalData
  /\ currentUser.role = "student"
  /\ currentUser.student.regNo = assignmentModal.studentRegNo

AssignmentIdsOf(student) == {student.assignments[i].id : i \in 1..Len(student.assignments)}

\* Opened from the student dashboard (own assignments) or from the details modal.
handleOpenAssignmentModal(regNo, assignmentId) ==
  /\ pending = {}
  /\ \/ /\ page = "StudentDashboard"
        /\ currentUser.role = "student"
        /\ regNo = currentUser.student.regNo
        /\ assignmentId \in AssignmentIdsOf(currentUser.student)
     \/ /\ selectedStudent # NullStudent
        /\ regNo = selectedStudent.regNo
        /\ assignmentId \in AssignmentIdsOf(selectedStudent)
  /\ assignmentModal' = [studentRegNo |-> regNo, assignmentId |-> assignmentId]
  /\ assignmentUploadError' = "none"
  /\ assignmentUploadSuccess' = FALSE
  /\ assignmentUploadFile' = "none"
  /\ UNCHANGED <<storeVars, students, sessVars, selectedStudent, attVars, delVars,
                 isUploadingAssignment, formVars, opVars, histVars>>
  /\ pending' = Triggered

handleCloseAssignmentModal ==
  /\ pending = {}
  /\ HasModalData
  /\ assignmentModal' = CloseAssignmentModalResult[1]
  /\ assignmentUploadFile' = CloseAssignmentModalResult[2]
  /\ assignmentUploadError' = CloseAssignmentModalResult[3]
  /\ assignmentUploadSuccess' = CloseAssignmentModalResult[4]
  /\ UNCHANGED <<storeVars, students, sessVars, selectedStudent, attVars, delVars,
                 isUploadingAssignment, formVars, opVars, histVars>>
  /\ pending' = Triggered

\* The file input's onChange: no file, a file of at most 10 MB, or a larger one.
ChooseFile(file) ==
  /\ pending = {}
  /\ isStudentOwnerForAssignmentModal
  /\ ~isUploadingAssignment
  /\ assignmentUploadFile' = file
  /\ assignmentUploadError' = "none"
  /\ assignmentUploadSuccess' = FALSE
  /\ UNCHANGED <<storeVars, students, sessVars, selectedStudent, attVars, delVars,
                 assignmentModal, isUploadingAssignment, formVars, opVars, histVars>>
  /\ pending' = Triggered

\* A variant that marks the assignment submitted and stores no download URL.
SubmittedAssignmentsWithoutUrl(assignments, assignmentId) ==
  [i \in 1..Len(assignments) |->
     IF assignments[i].id = assignmentId
     THEN [assignments[i] EXCEPT !.status = "submitted",
                                 !.submissionName = Some("file"),
                                 !.submittedAt = Some("now")]
     ELSE assignments[i]]

\* The assignments handleSubmitAssignmentUpload writes back.
SubmittedAssignments(assignments, assignmentId) ==
  [i \in 1..Len(assignments) |->
     IF assignments[i].id = assignmentId
     THEN [assignments[i] EXCEPT !.status = "submitted",
                                 !.submissionUrl = Some("url"),
                                 !.submissionName = Some("file"),
                                 !.submittedAt = Some("now")]
     ELSE assignments[i]]

\* A variant that does not look at who is logged in.
SubmitUploadCallAnyUser ==
  /\ pending = {}
  /\ ~isUploadingAssignment
  /\ upOp.phase = "idle"
  /\ IF ~HasModalData
     THEN /\ assignmentUploadError' = "noAssignment"
          /\ UNCHANGED <<assignmentUploadSuccess, isUploadingAssignment, upOp>>
     ELSE IF assignmentUploadFile = "none"
     THEN /\ assignmentUploadError' = "noFile"
          /\ UNCHANGED <<assignmentUploadSuccess, isUploadingAssignment, upOp>>
     ELSE IF assignmentUploadFile = "large"
     THEN /\ assignmentUploadError' = "tooLarge"
          /\ UNCHANGED <<assignmentUploadSuccess, isUploadingAssignment, upOp>>
     ELSE /\ InFlight < MaxInFlight
          /\ isUploadingAssignment' = TRUE
          /\ assignmentUploadError' = "none"
          /\ assignmentUploadSuccess' = FALSE
          /\ upOp' = [phase |-> "storage", regNo |-> assignmentModal.studentRegNo,
                      assignmentId |-> assignmentModal.assignmentId,
                      assignments |->
                        Find(students, assignmentModal.studentRegNo).assignments]
  /\ UNCHANGED <<storeVars, students, sessVars, selectedStudent, attVars, delVars,
                 assignmentModal, assignmentUploadFile, formVars, login, attOp, delOp,
                 asgOp, msgOp, writes, idsMade, histVars>>
  /\ pending' = Triggered

\* handleSubmitAssignmentUpload up to `await uploadBytes`.
SubmitUploadCall ==
  /\ pending = {}
  /\ ~isUploadingAssignment
  /\ upOp.phase = "idle"
  /\ IF ~HasModalData
     THEN /\ assignmentUploadError' = "noAssignment"
          /\ UNCHANGED <<assignmentUploadSuccess, isUploadingAssignment, upOp>>
     ELSE IF assignmentUploadFile = "none"
     THEN /\ assignmentUploadError' = "noFile"
          /\ UNCHANGED <<assignmentUploadSuccess, isUploadingAssignment, upOp>>
     ELSE IF ~isStudentOwnerForAssignmentModal
     THEN /\ assignmentUploadError' = "notOwner"
          /\ UNCHANGED <<assignmentUploadSuccess, isUploadingAssignment, upOp>>
     ELSE IF assignmentUploadFile = "large"
     THEN /\ assignmentUploadError' = "tooLarge"
          /\ UNCHANGED <<assignmentUploadSuccess, isUploadingAssignment, upOp>>
     ELSE /\ InFlight < MaxInFlight
          /\ isUploadingAssignment' = TRUE
          /\ assignmentUploadError' = "none"
          /\ assignmentUploadSuccess' = FALSE
          /\ upOp' = [phase |-> "storage", regNo |-> assignmentModal.studentRegNo,
                      assignmentId |-> assignmentModal.assignmentId,
                      assignments |->
                        Find(students, assignmentModal.studentRegNo).assignments]
  /\ UNCHANGED <<storeVars, students, sessVars, selectedStudent, attVars, delVars,
                 assignmentModal, assignmentUploadFile, formVars, login, attOp, delOp,
                 asgOp, msgOp, writes, idsMade, histVars>>
  /\ pending' = Triggered

\* uploadBytes and getDownloadURL settle in the object store.
UploadStorageSettles(ok) ==
  /\ pending = {}
  /\ upOp.phase = "storage"
  /\ blobs' = IF ok THEN blobs \cup {<<upOp.regNo, upOp.assignmentId>>} ELSE blobs
  /\ upOp' = [upOp EXCEPT !.phase = IF ok THEN "doc" ELSE "rejected"]
  /\ UNCHANGED <<store, students, sessVars, selectedStudent, attVars, delVars, modalVars,
                 formVars, login, attOp, delOp, asgOp, msgOp, writes, idsMade, pending,
                 histVars>>

\* updateDoc(student, {assignments, pendingAssignments}) settles in the store.
UploadDocSettles(ok) ==
  /\ pending = {}
  /\ upOp.phase = "doc"
  /\ LET applies == ok /\ UpdateOk(store, upOp.regNo)
         updatedAssignments == SubmittedAssignments(upOp.assignments, upOp.assignmentId)
     IN /\ store' =
             IF applies
             THEN Put(store, upOp.regNo,
                      [store[upOp.regNo] EXCEPT
                         !.assignments = updatedAssignments,
                         !.pendingAssignments =
                           Some(getPendingAssignmentsCount(updatedAssignments, 0))])
             ELSE store
        /\ upOp' = [upOp EXCEPT !.phase = IF applies THEN "applied" ELSE "rejected"]
  /\ UNCHANGED <<blobs, students, sessVars, selectedStudent, attVars, delVars, modalVars,
                 formVars, login, attOp, delOp, asgOp, msgOp, writes, idsMade, pending,
                 histVars>>

\* The continuation of handleSubmitAssignmentUpload: try, catch, finally.
SubmitUploadDone ==
  /\ pending = {}
  /\ upOp.phase \in {"applied", "rejected"}
  /\ IF upOp.phase = "applied"
     THEN /\ assignmentUploadSuccess' = TRUE
          /\ assignmentUploadFile' = "none"
          /\ UNCHANGED assignmentUploadError
     ELSE /\ assignmentUploadError' = "failed"
          /\ UNCHANGED <<assignmentUploadSuccess, assignmentUploadFile>>
  /\ isUploadingAssignment' = FALSE
  /\ upOp' = IdleUp
  /\ UNCHANGED <<storeVars, students, sessVars, selectedStudent, attVars, delVars,
                 assignmentModal, formVars, login, attOp, delOp, asgOp, msgOp, writes,
                 idsMade, histVars>>
  /\ pending' = Triggered

\* The admin section of the details modal is rendered.
AdminSectionShown == selectedStudent # NullStudent /\ currentUser.role = "admin"

handleToggleAssignmentForm ==
  /\ pending = {}
  /\ AdminSectionShown
  /\ isAssignmentFormVisible' = ~isAssignmentFormVisible
  /\ IF ~isAssignmentFormVisible
     THEN /\ isMessageFormVisible' = FALSE
          /\ messageDraft' = EmptyMessageDraft
          /\ messageFormError' = "none"
          /\ isSavingMessage' = FALSE
     ELSE UNCHANGED <<isMessageFormVisible, messageDraft, messageFormError,
                      isSavingMessage>>
  /\ assignmentFormError' = "none"
  /\ UNCHANGED <<storeVars, students, sessVars, selectedStudent, attVars, delVars,
                 modalVars, assignmentDraft, isSavingAssignment, opVars, histVars>>
  /\ pending' = Triggered

\* A variant of handleToggleMessageForm that leaves the assignment form alone.
handleToggleMessageFormAlone ==
  /\ pending = {}
  /\ AdminSectionShown
  /\ isMessageFormVisible' = ~isMessageFormVisible
  /\ messageFormError' = "none"
  /\ UNCHANGED <<storeVars, students, sessVars, selectedStudent, attVars, delVars,
                 modalVars, isAssignmentFormVisible, assignmentDraft,
                 assignmentFormError, isSavingAssignment, messageDraft,
                 isSavingMessage, opVars, histVars>>
  /\ pending' = Triggered

handleToggleMessageForm ==
  /\ pending = {}
  /\ AdminSectionShown
  /\ isMessageFormVisible' = ~isMessageFormVisible
  /\ IF ~isMessageFormVisible
     THEN /\ isAssignmentFormVisible' = FALSE
          /\ assignmentDraft' = EmptyAssignmentDraft
          /\ assignmentFormError' = "none"
          /\ isSavingAssignment' = FALSE
     ELSE UNCHANGED <<isAssignmentFormVisible, assignmentDraft, assignmentFormError,
                      isSavingAssignment>>
  /\ messageFormError' = "none"
  /\ UNCHANGED <<storeVars, students, sessVars, selectedStudent, attVars, delVars,
                 modalVars, messageDraft, isSavingMessage, opVars, histVars>>
  /\ pending' = Triggered

\* The drafts typed into the forms: a field is "" when blank after trim(); a due
\* date is "", a date ("iso") or a string new Date() cannot parse ("garbage").
AssignmentDrafts ==
  {[title |-> "t", dueDate |-> "iso"], [title |-> "", dueDate |-> "iso"],
   [title |-> "  ", dueDate |-> "iso"], [title |-> "t", dueDate |-> ""],
   [title |-> "t", dueDate |-> "garbage"], [title |-> "t", dueDate |-> "  "]}

MessageDrafts ==
  {[title |-> "t", body |-> "b"], [title |-> "", body |-> "b"],
   [title |-> "  ", body |-> "b"], [title |-> "t", body |-> ""],
   [title |-> "t", body |-> "  "]}

handleAssignmentDraftChange(draft) ==
  /\ pending = {}
  /\ AdminSectionShown /\ isAssignmentFormVisible
  /\ assignmentDraft' = draft
  /\ UNCHANGED <<storeVars, students, sessVars, selectedStudent, attVars, delVars,
                 modalVars, isAssignmentFormVisible, assignmentFormError,
                 isSavingAssignment, isMessageFormVisible, messageDraft,
                 messageFormError, isSavingMessage, opVars, histVars>>
  /\ pending' = Triggered

handleMessageDraftChange(draft) ==
  /\ pending = {}
  /\ AdminSectionShown /\ isMessageFormVisible
  /\ messageDraft' = draft
  /\ UNCHANGED <<storeVars, students, sessVars, selectedStudent, attVars, delVars,
                 modalVars, isAssignmentFormVisible, assignmentDraft,
                 assignmentFormError, isSavingAssignment, isMessageFormVisible,
                 messageFormError, isSavingMessage, opVars, histVars>>
  /\ pending' = Triggered

NewAssignment(id, dueDateIso) ==
  [id |-> id, dueDate |-> dueDateIso, status |-> "pending", submissionUrl |-> None,
   submissionName |-> None, submittedAt |-> None]

\* A variant that sends the due date without parsing it first.
CreateAssignmentCallUnvalidatedDate ==
  /\ pending = {}
  /\ AdminSectionShown /\ isAssignmentFormVisible /\ ~isSavingAssignment
  /\ asgOp.phase = "idle"
  /\ LET latestStudent == Find(students, selectedStudent.regNo)
     IN IF Trim(assignmentDraft.title) = ""
        THEN /\ assignmentFormError' = "title"
             /\ UNCHANGED <<isSavingAssignment, asgOp, idsMade>>
        ELSE IF assignmentDraft.dueDate = ""
        THEN /\ assignmentFormError' = "dueDate"
             /\ UNCHANGED <<isSavingAssignment, asgOp, idsMade>>
        ELSE IF latestStudent = NullStudent
        THEN /\ assignmentFormError' = "unable"
             /\ UNCHANGED <<isSavingAssignment, asgOp, idsMade>>
        ELSE /\ InFlight < MaxInFlight
             /\ idsMade < MaxAssignments
             /\ isSavingAssignment' = TRUE
             /\ assignmentFormError' = "none"
             /\ idsMade' = idsMade + 1
             /\ asgOp' = [phase |-> "sent", regNo |-> latestStudent.regNo,
                          assignments |->
                            Append(latestStudent.assignments,
                                   NewAssignment(idsMade + 1, assignmentDraft.dueDate))]
  /\ UNCHANGED <<storeVars, students, sessVars, selectedStudent, attVars, delVars,
                 modalVars, isAssignmentFormVisible, assignmentDraft,
                 isMessageFormVisible, messageDraft, messageFormError, isSavingMessage,
                 login, attOp, delOp, upOp, msgOp, writes, histVars>>
  /\ pending' = Triggered

\* handleCreateAssignment up to `await updateDoc`, or to its return.
CreateAssignmentCall ==
  /\ pending = {}
  /\ AdminSectionShown /\ isAssignmentFormVisible /\ ~isSavingAssignment
  /\ asgOp.phase = "idle"
  /\ LET latestStudent == Find(students, selectedStudent.regNo)
     IN IF Trim(assignmentDraft.title) = ""
        THEN /\ assignmentFormError' = "title"
             /\ UNCHANGED <<isSavingAssignment, asgOp, idsMade>>
        ELSE IF assignmentDraft.dueDate = ""
        THEN /\ assignmentFormError' = "dueDate"
             /\ UNCHANGED <<isSavingAssignment, asgOp, idsMade>>
        ELSE IF DateThrows(assignmentDraft.dueDate)
        THEN /\ assignmentFormError' = "invalid"
             /\ UNCHANGED <<isSavingAssignment, asgOp, idsMade>>
        ELSE IF latestStudent = NullStudent
        THEN /\ assignmentFormError' = "unable"
             /\ UNCHANGED <<isSavingAssignment, asgOp, idsMade>>
        ELSE /\ InFlight < MaxInFlight
             /\ idsMade < MaxAssignments
             /\ isSavingAssignment' = TRUE
             /\ assignmentFormError' = "none"
             /\ idsMade' = idsMade + 1
             /\ asgOp' = [phase |-> "sent", regNo |-> latestStudent.regNo,
                          assignments |->
                            Append(latestStudent.assignments,
                                   NewAssignment(idsMade + 1, assignmentDraft.dueDate))]
  /\ UNCHANGED <<storeVars, students, sessVars, selectedStudent, attVars, delVars,
                 modalVars, isAssignmentFormVisible, assignmentDraft,
                 isMessageFormVisible, messageDraft, messageFormError, isSavingMessage,
                 login, attOp, delOp, upOp, msgOp, writes, histVars>>
  /\ pending' = Triggered

\* updateDoc(student, {assignments, pendingAssignments}) settles in the store.
CreateAssignmentSettles(ok) ==
  /\ pending = {}
  /\ asgOp.phase = "sent"
  /\ LET applies == ok /\ UpdateOk(store, asgOp.regNo)
     IN /\ store' =
             IF applies
             THEN Put(store, asgOp.regNo,
                      [store[asgOp.regNo] EXCEPT
                         !.assignments = asgOp.assignments,
                         !.pendingAssignments =
                           Some(getPendingAssignmentsCount(asgOp.assignments, 0))])
             ELSE store
        /\ asgOp' = [asgOp EXCEPT !.phase = IF applies THEN "applied" ELSE "rejected"]
  /\ UNCHANGED <<blobs, students, sessVars, selectedStudent, attVars, delVars, modalVars,
                 formVars, login, attOp, delOp, upOp, msgOp, writes, idsMade, pending,
                 histVars>>

\* The continuation of handleCreateAssignment: try, catch, finally.
CreateAssignmentDone ==
  /\ pending = {}
  /\ asgOp.phase \in {"applied", "rejected"}
  /\ IF asgOp.phase = "applied"
     THEN /\ assignmentDraft' = EmptyAssignmentDraft
          /\ isAssignmentFormVisible' = FALSE
          /\ UNCHANGED assignmentFormError
     ELSE /\ assignmentFormError' = "unable"
          /\ UNCHANGED <<assignmentDraft, isAssignmentFormVisible>>
  /\ isSavingAssignment' = FALSE
  /\ asgOp' = IdleAsg
  /\ UNCHANGED <<storeVars, students, sessVars, selectedStudent, attVars, delVars,
                 modalVars, isMessageFormVisible, messageDraft, messageFormError,
                 isSavingMessage, login, attOp, delOp, upOp, msgOp, writes, idsMade,
                 histVars>>
  /\ pending' = Triggered

NewMessage(id) == [id |-> id, createdAt |-> "now", sender |-> "admin"]

\* handleCreateMessage up to `await updateDoc`, or to its return.
CreateMessageCall ==
  /\ pending = {}
  /\ AdminSectionShown /\ isMessageFormVisible /\ ~isSavingMessage
  /\ msgOp.phase = "idle"
  /\ LET latestStudent == Find(students, selectedStudent.regNo)
     IN IF Trim(messageDraft.title) = ""
        THEN /\ messageFormError' = "title"
             /\ UNCHANGED <<isSavingMessage, msgOp, idsMade>>
        ELSE IF Trim(messageDraft.body) = ""
        THEN /\ messageFormError' = "body"
             /\ UNCHANGED <<isSavingMessage, msgOp, idsMade>>
        ELSE IF latestStudent = NullStudent
        THEN /\ messageFormError' = "unable"
             /\ UNCHANGED <<isSavingMessage, msgOp, idsMade>>
        ELSE /\ InFlight < MaxInFlight
             /\ idsMade < MaxAssignments
             /\ isSavingMessage' = TRUE
             /\ messageFormError' = "none"
             /\ idsMade' = idsMade + 1
             /\ msgOp' = [phase |-> "sent", regNo |-> latestStudent.regNo,
                          messages |->
                            Append(latestStudent.messages, NewMessage(idsMade + 1))]
  /\ UNCHANGED <<storeVars, students, sessVars, selectedStudent, attVars, delVars,
                 modalVars, isAssignmentFormVisible, assignmentDraft,
                 assignmentFormError, isSavingAssignment, isMessageFormVisible,
                 messageDraft, login, attOp, delOp, upOp, asgOp, writes, histVars>>
  /\ pending' = Triggered

\* updateDoc(student, {messages}) settles in the store.
CreateMessageSettles(ok) ==
  /\ pending = {}
  /\ msgOp.phase = "sent"
  /\ LET applies == ok /\ UpdateOk(store, msgOp.regNo)
     IN /\ store' =
             IF applies
             THEN Put(store, msgOp.regNo,
                      [store[msgOp.regNo] EXCEPT !.messages = msgOp.messages])
             ELSE store
        /\ msgOp' = [msgOp EXCEPT !.phase = IF applies THEN "applied" ELSE "rejected"]
  /\ UNCHANGED <<blobs, students, sessVars, selectedStudent, attVars, delVars, modalVars,
                 formVars, login, attOp, delOp, upOp, asgOp, writes, idsMade, pending,
                 histVars>>

\* The continuation of handleCreateMessage: try, catch, finally.
CreateMessageDone ==
  /\ pending = {}
  /\ msgOp.phase \in {"applied", "rejected"}
  /\ IF msgOp.phase = "applied"
     THEN /\ messageDraft' = EmptyMessageDraft
          /\ isMessageFormVisible' = FALSE
          /\ UNCHANGED messageFormError
     ELSE /\ messageFormError' = "unable"
          /\ UNCHANGED <<messageDraft, isMessageFormVisible>>
  /\ isSavingMessage' = FALSE
  /\ msgOp' = IdleMsg
  /\ UNCHANGED <<storeVars, students, sessVars, selectedStudent, attVars, delVars,
                 modalVars, isAssignmentFormVisible, assignmentDraft,
                 assignmentFormError, isSavingAssignment, login, attOp, delOp, upOp,
                 asgOp, writes, idsMade, histVars>>
  /\ pending' = Triggered

\* ------------------------------------------------------------- other clients
\* Another client's handleStudentLogin registers a student (its setDoc).
RemoteRegister(name, regNo) ==
  /\ pending = {}
  /\ regNo \notin DOMAIN store
  /\ store' = Put(store, regNo, ToDoc(NewStudent(name, regNo)))
  /\ UNCHANGED <<blobs, students, sessVars, selectedStudent, attVars, delVars,
                 modalVars, formVars, opVars, pending, histVars>>

\* Another admin client's handleConfirmDeleteStudent (its deleteDoc).
RemoteDelete(regNo) ==
  /\ pending = {}
  /\ regNo \in DOMAIN store
  /\ store' = Remove(store, regNo)
  /\ deletedDocs' = deletedDocs \cup {regNo}
  /\ UNCHANGED <<blobs, students, sessVars, selectedStudent, attVars, delVars,
                 modalVars, formVars, opVars, pending, delivered, published,
                 lastPublished, errorLog>>

\* Another admin client's handleToggleBlock (its updateDoc).
RemoteToggleBlock(regNo) ==
  /\ pending = {}
  /\ regNo \in DOMAIN store
  /\ store' = Put(store, regNo,
                  UpdateField(store[regNo], "isBlocked",
                              ~normalizeStudentData(store[regNo], regNo, GenId).isBlocked))
  /\ UNCHANGED <<blobs, students, sessVars, selectedStudent, attVars, delVars,
                 modalVars, formVars, opVars, pending, histVars>>

\* Another admin client's handleCreateAssignment (its updateDoc).  The array it
\* writes starts from the roster of that client: the stored assignments as they
\* are now, or as an earlier snapshot (the one this client holds) showed them.
RemoteCreateAssignment(regNo) ==
  /\ pending = {}
  /\ regNo \in DOMAIN store
  /\ ~NormalizeThrows(store[regNo])
  /\ idsMade < MaxAssignments
  /\ idsMade' = idsMade + 1
  /\ \E latest \in {normalizeStudentData(store[regNo], regNo, GenId)}
                     \cup {students[i] : i \in {j \in 1..Len(students) :
                                                  students[j].regNo = regNo}} :
       LET updatedAssignments ==
             Append(latest.assignments, NewAssignment(idsMade + 1, "iso"))
       IN store' = Put(store, regNo,
                       [store[regNo] EXCEPT
                          !.assignments = updatedAssignments,
                          !.pendingAssignments =
                            Some(getPendingAssignmentsCount(updatedAssignments, 0))])
  /\ UNCHANGED <<blobs, students, sessVars, selectedStudent, attVars, delVars,
                 modalVars, formVars, login, attOp, delOp, upOp, asgOp, msgOp, writes,
                 pending, histVars>>

\* ------------------------------------------------------------ specifications
\* The login core: what every specification below shares.
NextLogin ==
  \/ RunEffects
  \/ \E p \in {"StudentLogin", "AdminLogin"} : SelectRole(p)
  \/ Back
  \/ \E i \in LoginInputs : StudentLoginCall(i[1], i[2])
  \/ StudentLoginRead
  \/ StudentLoginFail
  \/ StudentLoginWrite
  \/ StudentLoginRegistered
  \/ \E ok \in BOOLEAN : handleAdminLogin(ok)
  \/ handleLogout

\* Sessions: logins, logouts and deletions by this client and by others.
NextSession ==
  \/ NextLogin
  \/ Snapshot
  \/ \E s \in Range(students) : handleRequestDeleteStudent(s)
  \/ handleCancelDeleteStudent
  \/ ConfirmDeleteCall
  \/ \E ok \in BOOLEAN : ConfirmDeleteSettles(ok)
  \/ ConfirmDeleteDone
  \/ \E i \in RemoteInputs : RemoteRegister(i[1], i[2])
  \/ \E r \in RegNos : RemoteDelete(r)

SpecSession == InitRegistered /\ [][NextSession]_vars

\* Selections: what this client holds of one student while other clients
\* register, block and delete that student.
NextSelection ==
  \/ RunEffects
  \/ Snapshot
  \/ \E p \in {"StudentLogin", "AdminLogin"} : SelectRole(p)
  \/ StudentLoginCall("Asha", "CS001")
  \/ StudentLoginRead
  \/ StudentLoginFail
  \/ StudentLoginWrite
  \/ StudentLoginRegistered
  \/ handleAdminLogin(TRUE)
  \/ handleLogout
  \/ \E s \in Range(students) : handleViewDetails(s)
  \/ handleCloseModal
  \/ \E s \in Range(students) : handleRequestDeleteStudent(s)
  \/ handleCancelDeleteStudent
  \/ ConfirmDeleteCall
  \/ \E ok \in BOOLEAN : ConfirmDeleteSettles(ok)
  \/ ConfirmDeleteDone
  \/ \E n \in Names : RemoteRegister(n, "CS001")
  \/ RemoteDelete("CS001")
  \/ RemoteToggleBlock("CS001")

SpecSelection == InitRegistered /\ [][NextSelection]_vars

\* Attendance: the admin's saves against a store other clients change too.
NextAttendance ==
  \/ RunEffects
  \/ Snapshot
  \/ SelectRole("AdminLogin")
  \/ handleAdminLogin(TRUE)
  \/ handleOpenAttendanceModal
  \/ handleCloseAttendanceModal
  \/ \E r \in RegNos : handleToggleAttendanceSelection(r)
  \/ handleMarkAllPresent
  \/ SubmitAttendanceCall
  \/ \E r \in RegNos, ok \in BOOLEAN : AttendanceWriteSettles(r, ok)
  \/ SubmitAttendanceDone
  \/ \E w \in writes, ok \in BOOLEAN : WriteSettles(w, ok)
  \/ \E i \in RemoteInputs : RemoteRegister(i[1], i[2])
  \/ \E r \in RegNos : RemoteDelete(r)

SpecAttendance == Init /\ [][NextAttendance]_vars

\* Assignments: the student and the admin open an assignment and the student
\* submits it, while other clients delete and register the student again.
NextAssignment ==
  \/ RunEffects
  \/ Snapshot
  \/ \E p \in {"StudentLogin", "AdminLogin"} : SelectRole(p)
  \/ StudentLoginCall("Asha", "CS001")
  \/ StudentLoginRead
  \/ handleAdminLogin(TRUE)
  \/ handleLogout
  \/ \E s \in Range(students) : handleViewDetails(s)
  \/ handleCloseModal
  \/ \E r \in RegNos, a \in AssignmentIdsOf(AssignedStudent) :
       handleOpenAssignmentModal(r, a)
  \/ handleCloseAssignmentModal
  \/ \E f \in {"none", "small", "large"} : ChooseFile(f)
  \/ SubmitUploadCall
  \/ \E ok \in BOOLEAN : UploadStorageSettles(ok)
  \/ \E ok \in BOOLEAN : UploadDocSettles(ok)
  \/ SubmitUploadDone
  \/ RemoteRegister("Asha", "CS001")
  \/ RemoteDelete("CS001")

SpecAssignment == InitAssigned /\ [][NextAssignment]_vars

\* The subscription: snapshot and error events, with their history, while the
\* admin holds selections and other clients change the store.
NextSync ==
  \/ RunEffects
  \/ SyncSnapshot
  \/ SubscriptionError
  \/ SelectRole("AdminLogin")
  \/ handleAdminLogin(TRUE)
  \/ \E s \in Range(students) : handleViewDetails(s)
  \/ handleCloseModal
  \/ \E s \in Range(students) : handleRequestDeleteStudent(s)
  \/ handleCancelDeleteStudent
  \/ \E i \in RemoteInputs : RemoteRegister(i[1], i[2])
  \/ \E r \in RegNos : RemoteDelete(r)
  \/ \E r \in RegNos : RemoteToggleBlock(r)

SpecSync == InitSync /\ [][NextSync]_vars

\* No modal covers the page: the dashboard's buttons can be clicked.
PageUncovered ==
  /\ ~isAttendanceModalOpen
  /\ selectedStudent = NullStudent
  /\ studentToDelete = NullStudent
  /\ assignmentModal = NoModal

\* Every handler of this client that writes to the store, for one student, used
\* with the pointer: a button under an open modal is not clicked.
NextHandlers ==
  \/ RunEffects
  \/ Snapshot
  \/ \E p \in {"StudentLogin", "AdminLogin"} : SelectRole(p)
  \/ StudentLoginCall("Asha", "CS001")
  \/ StudentLoginRead
  \/ StudentLoginFail
  \/ StudentLoginWrite
  \/ StudentLoginRegistered
  \/ handleAdminLogin(TRUE)
  \/ PageUncovered /\ handleToggleBlock("CS001")
  \/ \E w \in writes, ok \in BOOLEAN : WriteSettles(w, ok)
  \/ PageUncovered /\ \E s \in Range(students) : handleViewDetails(s)
  \/ handleCloseModal
  \/ PageUncovered /\ \E s \in Range(students) : handleRequestDeleteStudent(s)
  \/ ConfirmDeleteCall
  \/ \E ok \in BOOLEAN : ConfirmDeleteSettles(ok)
  \/ ConfirmDeleteDone
  \/ PageUncovered /\ handleOpenAttendanceModal
  \/ handleToggleAttendanceSelection("CS001")
  \/ SubmitAttendanceCall
  \/ \E ok \in BOOLEAN : AttendanceWriteSettles("CS001", ok)
  \/ SubmitAttendanceDone
  \/ handleToggleAssignmentForm
  \/ handleAssignmentDraftChange([title |-> "t", dueDate |-> "iso"])
  \/ CreateAssignmentCall
  \/ \E ok \in BOOLEAN : CreateAssignmentSettles(ok)
  \/ CreateAssignmentDone
  \/ handleToggleMessageForm
  \/ handleMessageDraftChange([title |-> "t", body |-> "b"])
  \/ CreateMessageCall
  \/ \E ok \in BOOLEAN : CreateMessageSettles(ok)
  \/ CreateMessageDone
  \/ /\ PageUncovered
     /\ \E a \in AssignmentIdsOf(AssignedStudent) : handleOpenAssignmentModal("CS001", a)
  \/ handleCloseAssignmentModal
  \/ ChooseFile("small")
  \/ SubmitUploadCall
  \/ \E ok \in BOOLEAN : UploadStorageSettles(ok)
  \/ \E ok \in BOOLEAN : UploadDocSettles(ok)
  \/ SubmitUploadDone

InitHandlers ==
  /\ store \in {EmptyStore,
                Put(EmptyStore, "CS001",
                    ToDoc([AssignedStudent EXCEPT !.attendedClasses = 9]))}
  /\ InitClient

SpecHandlers == InitHandlers /\ [][NextHandlers]_vars

\* ------------------------------------------------------------ attendance
\* attendedClasses and totalClasses as a stored document carries them.
StoredAttended(d) == Val(d.attendedClasses)

StoredTotal(d) == Val(d.totalClasses)

StoredWithinTotal(d) ==
  /\ IsSome(d.attendedClasses) /\ IsSome(d.totalClasses)
  /\ 0 <= StoredAttended(d) /\ StoredAttended(d) <= StoredTotal(d)

\* C8: every stored document keeps 0 <= attendedClasses <= totalClasses through
\* any interleaving of registrations, attendance saves and deletions, when the
\* store started that way.
C8_StoredAttendanceWithinTotal ==
  \A r \in DOMAIN store : StoredWithinTotal(store[r])

\* The case of C8: a write of a save has been applied to a document registered
\* since the roster the save was computed from.
C8_StaleSaveApplied ==
  \E r \in DOMAIN store :
    /\ r \in attOp.done
    /\ Find(students, r) # NullStudent
    /\ Find(students, r).totalClasses # StoredTotal(store[r])

\* A write of the attendance batch is applied to student r's document in this step.
AttendanceApplied(r) == r \in attOp'.done \ attOp.done

\* C9: every applied write of an attendance save, for a student whose stored
\* attendedClasses is below totalClasses, raises the stored attendedClasses by
\* exactly one.
C9_EachSaveAddsOne ==
  [][\A r \in RegNos :
       (/\ AttendanceApplied(r)
        /\ StoredAttended(store[r]) < StoredTotal(store[r]))
       => StoredAttended(store'[r]) = StoredAttended(store[r]) + 1]_vars

\* The case of C9: a second save has applied a write for a student whose roster
\* record predates the first save.
C9_SecondSaveBeforeSnapshot ==
  \E r \in attOp.done :
    /\ attOp.saves >= 2
    /\ r \in DOMAIN store
    /\ Find(students, r) # NullStudent
    /\ StoredAttended(store[r]) = Find(students, r).attendedClasses + 1

\* The continuation of handleSubmitAttendance runs in this step.
AttendanceDoneStep == attOp.phase = "sent" /\ attOp'.phase = "idle"

\* C10: the writes of a batch are independent. No step of the save undoes a write
\* of the batch that was applied; when a write failed the continuation sets
\* attendanceError, leaves the modal and its selections as they are and ends
\* with isSavingAttendance false; when all succeeded it closes the modal and
\* empties the selections.
C10_BatchWritesIndependent ==
  [][/\ attOp' # attOp =>
          \A r \in attOp.done \cap DOMAIN store :
            r \in DOMAIN store' /\ store'[r] = store[r]
     /\ AttendanceDoneStep /\ attOp.failed # {} =>
          /\ store' = store
          /\ attendanceError'
          /\ isAttendanceModalOpen' = isAttendanceModalOpen
          /\ attendanceSelections' = attendanceSelections
          /\ ~isSavingAttendance'
     /\ AttendanceDoneStep /\ attOp.failed = {} =>
          /\ store' = store
          /\ ~attendanceError'
          /\ ~isAttendanceModalOpen'
          /\ attendanceSelections' = <<>>
          /\ ~isSavingAttendance']_vars

\* The case of C10: a batch over two students has ended with one write applied
\* and one rejected, and the modal is still open with both still checked.
C10_PartialFailure ==
  /\ attOp.phase = "idle"
  /\ attOp.done # {} /\ attOp.failed # {}
  /\ \A r \in attOp.done :
       r \in DOMAIN store /\ Find(students, r) # NullStudent
       /\ StoredAttended(store[r]) = Find(students, r).attendedClasses + 1
  /\ attendanceError /\ isAttendanceModalOpen /\ ~isSavingAttendance
  /\ \A r \in attOp.done \cup attOp.failed : Checked(attendanceSelections, r)

\* ---------------------------------------------------------------- sessions
\* handleLogout runs in this step.
LogoutStep == currentUser' = NoUser /\ page' = "Home"

\* C1: a student session ends only by handleLogout, or once the student's
\* document has been deleted from the store. A roster that does not hold the
\* student yet is no reason to end it.
C1_SessionEndsOnlyByLogoutOrDeletion ==
  [][(currentUser.role = "student" /\ currentUser'.role # "student")
       => (LogoutStep \/ currentUser.student.regNo \in deletedDocs')]_vars

\* The case of C1: a login has completed for a student whose document is in the
\* store and has never been deleted, while the roster does not hold the student.
C1_LoggedInBeforeRoster ==
  /\ currentUser.role = "student"
  /\ currentUser.student.regNo \in DOMAIN store
  /\ currentUser.student.regNo \notin deletedDocs
  /\ Find(students, currentUser.student.regNo) = NullStudent

\* -------------------------------------------------------------- selections
\* The held selections whose student the roster does not hold.
SelectedAbsent ==
  selectedStudent # NullStudent /\ Find(students, selectedStudent.regNo) = NullStudent

ToDeleteAbsent ==
  studentToDelete # NullStudent /\ Find(students, studentToDelete.regNo) = NullStudent

SessionAbsent ==
  currentUser.role = "student" /\ Find(students, currentUser.student.regNo) = NullStudent

\* C2: the reconciliation pass clears every held selection whose regNo the roster
\* does not hold: selectedStudent becomes null; studentToDelete becomes null with
\* deleteError cleared and isDeletingStudent false; a student session becomes no
\* session on the StudentLogin page. Once reconciliation has settled, no held
\* selection references a regNo absent from the roster.
C2_AbsentSelectionsCleared ==
  /\ [](pending = {} => ~SelectedAbsent /\ ~ToDeleteAbsent /\ ~SessionAbsent)
  /\ [][pending # {} =>
          /\ SelectedAbsent => selectedStudent' = NullStudent
          /\ ToDeleteAbsent =>
               studentToDelete' = NullStudent /\ ~deleteError' /\ ~isDeletingStudent'
          /\ SessionAbsent => currentUser' = NoUser /\ page' = "StudentLogin"]_vars

\* The case of C2: the confirmation of a deletion was dismissed by reconciliation
\* while handleConfirmDeleteStudent was still awaiting its deleteDoc.
C2_ConfirmationDismissedByRoster ==
  /\ pending = {}
  /\ delOp.phase # "idle"
  /\ studentToDelete = NullStudent
  /\ ~isDeletingStudent /\ ~deleteError

\* C3: once reconciliation has settled, a held selectedStudent equals the roster
\* record with its regNo, and so does a student session's record; a pass that
\* finds a held record differing from the roster's replaces it by the roster's.
C3_HeldRecordsEqualRoster ==
  /\ [](pending = {} =>
          /\ selectedStudent # NullStudent =>
               selectedStudent = Find(students, selectedStudent.regNo)
          /\ currentUser.role = "student" =>
               currentUser.student = Find(students, currentUser.student.regNo))
  /\ [][pending # {} =>
          /\ (~SelectedAbsent /\ selectedStudent # NullStudent
              /\ selectedStudent # Find(students, selectedStudent.regNo))
               => selectedStudent' = Find(students, selectedStudent.regNo)
          /\ (~SessionAbsent /\ currentUser.role = "student"
              /\ currentUser.student # Find(students, currentUser.student.regNo))
               => currentUser' =
                    StudentUser(Find(students, currentUser.student.regNo))]_vars

\* The case of C3: a student session holds a blocked record. A blocked student
\* cannot log in, so the record was replaced after another client's block.
C3_SessionRecordRefreshed ==
  /\ pending = {}
  /\ currentUser.role = "student"
  /\ currentUser.student.isBlocked
  /\ page = "StudentDashboard"

\* ------------------------------------------------------- assignment modal
\* The roster holds assignmentModal's student, and no assignment with its id.
ModalAssignmentGone ==
  /\ assignmentModal # NoModal
  /\ Find(students, assignmentModal.studentRegNo) # NullStudent
  /\ assignmentModal.assignmentId
       \notin AssignmentIdsOf(Find(students, assignmentModal.studentRegNo))

ModalCleared ==
  /\ assignmentModal' = NoModal
  /\ assignmentUploadFile' = "none"
  /\ assignmentUploadError' = "none"
  /\ ~assignmentUploadSuccess'

\* C4 as stated: the pass for a roster that holds assignmentModal's student
\* without the assignment clears assignmentModal, the chosen file and the upload
\* messages, and leaves selectedStudent, currentUser and page unchanged, whatever
\* else is in flight.
C4_ModalClearedRestUnchanged ==
  [][(pending # {} /\ ModalAssignmentGone)
       => (ModalCleared /\ UNCHANGED <<selectedStudent, currentUser, page>>)]_vars

\* C4 amended: that pass clears assignmentModal, the chosen file and the upload
\* messages unless an upload is in progress; then it leaves them, and the pass
\* after the upload's continuation clears them. The pass keeps a selectedStudent
\* and a student session of that student (their record is replaced by the
\* roster's, the regNo stays) and leaves an admin session and the page unchanged.
C4_ModalClearedUnlessUploading ==
  /\ [](pending = {} /\ ~isUploadingAssignment => ~ModalAssignmentGone)
  /\ [][(pending # {} /\ "assignmentModal" \in pending /\ ModalAssignmentGone) =>
          /\ IF isUploadingAssignment
             THEN UNCHANGED <<assignmentModal, assignmentUploadFile,
                              assignmentUploadError, assignmentUploadSuccess>>
             ELSE ModalCleared
          /\ selectedStudent.regNo = assignmentModal.studentRegNo
               => selectedStudent'.regNo = selectedStudent.regNo
          /\ (currentUser.role = "student"
              /\ currentUser.student.regNo = assignmentModal.studentRegNo)
               => /\ currentUser'.role = "student"
                  /\ currentUser'.student.regNo = currentUser.student.regNo
                  /\ page' = page
          /\ currentUser.role # "student" => UNCHANGED <<currentUser, page>>]_vars

\* The case of C4: reconciliation has settled, an upload is in progress, and the
\* roster holds assignmentModal's student without the assignment.
C4_ModalKeptDuringUpload ==
  /\ pending = {}
  /\ isUploadingAssignment
  /\ ModalAssignmentGone

\* ------------------------------------------------------------ subscription
\* roster is the documents of st, each normalized, in ascending regNo order.
IsRosterOf(roster, st) ==
  /\ Len(roster) = Cardinality(DOMAIN st)
  /\ \A k \in DOMAIN st :
       \E i \in 1..Len(roster) : roster[i] = normalizeStudentData(st[k], k, GenId)
  /\ \A i \in 1..Len(roster) : \A j \in i..Len(roster) :
       RegRank(roster[i].regNo) <= RegRank(roster[j].regNo)

\* C5: every snapshot event publishes one roster, the documents of that snapshot
\* normalized and sorted by regNo, which replaces the roster as a whole; no
\* snapshot is skipped.
C5_OnePublicationPerSnapshot ==
  [][delivered' = delivered + 1 =>
       /\ published' = published + 1
       /\ IsRosterOf(students', store)
       /\ lastPublished' = students']_vars

\* The case of C5: a snapshot event was delivered and no roster was published.
C5_SnapshotSkipped == published < delivered

\* The selection state of the client.
selectionVars ==
  <<sessVars, selectedStudent, studentToDelete, isDeletingStudent, deleteError,
    assignmentModal, isAttendanceModalOpen, attendanceSelections>>

\* C6: an error event of the subscription leaves the roster as it is, equal to
\* the last published roster, and leaves the selection state unchanged.
C6_ErrorKeepsRoster ==
  /\ [](students = lastPublished)
  /\ [][errorLog' # errorLog =>
          UNCHANGED <<students, lastPublished, selectionVars, pending>>]_vars

\* The case of C6: after an error event the admin still holds a selection from
\* a published roster that the store has moved away from.
C6_StaleRosterAfterError ==
  /\ errorLog > 0
  /\ published > 0
  /\ students # <<>>
  /\ selectedStudent # NullStudent
  /\ ~IsRosterOf(students, store)

\* ------------------------------------------------------------------ roster
\* The snapshot callback runs in this step: it publishes the roster of the
\* store's documents and changes nothing else of the client or of the store.
SnapshotStep ==
  /\ ~SnapshotThrows(store)
  /\ students' = FetchedStudents(store, GenId)
  /\ UNCHANGED <<storeVars, sessVars, selectedStudent, attVars, delVars, modalVars,
                 formVars, opVars>>

\* C7: the roster changes only in the snapshot callback. No handler changes it,
\* whether its write is applied or rejected, so a write shows in the roster only
\* after a later snapshot event.
C7_RosterChangesOnlyBySnapshot ==
  [][students' # students => SnapshotStep]_vars

\* The case of C7: a block toggle of this client has been applied to the store,
\* nothing is in flight, and the roster still shows the student unblocked.
C7_WriteNotYetInRoster ==
  /\ writes = {} /\ InFlight = 0
  /\ "CS001" \in DOMAIN store
  /\ store["CS001"].isBlocked = Some(TRUE)
  /\ Find(students, "CS001") # NullStudent
  /\ ~Find(students, "CS001").isBlocked

\* ------------------------------------------------------------ C11
\* The forms typed into the student login page: padded, blank after trim(),
\* and a name in another case.
LoginForms ==
  {<<"Asha", "CS001">>, <<"asha", "CS001">>, <<" Asha ", " CS001 ">>,
   <<"Ben", "CS001">>, <<"Ben", "CS002">>, <<"  ", "CS001">>, <<"Asha", "">>}

\* Student logins of this client while other clients register, block, unblock
\* and delete students.
NextRegistration ==
  \/ RunEffects
  \/ Snapshot
  \/ SelectRole("StudentLogin")
  \/ Back
  \/ \E i \in LoginForms : StudentLoginCall(i[1], i[2])
  \/ StudentLoginRead
  \/ StudentLoginFail
  \/ StudentLoginWrite
  \/ StudentLoginRegistered
  \/ handleLogout
  \/ \E i \in RemoteInputs : RemoteRegister(i[1], i[2])
  \/ \E r \in RegNos : RemoteDelete(r)
  \/ \E r \in RegNos : RemoteToggleBlock(r)

SpecRegistration == InitRegistered /\ [][NextRegistration]_vars

\* The document stored under the regNo of the login in flight is blocked.
LoginDocBlocked ==
  /\ login.regNo \in DOMAIN store
  /\ store[login.regNo].isBlocked = Some(TRUE)

\* C11: when getDoc of handleStudentLogin resolves with a document whose
\* isBlocked is true, the handler returns the blocked-account error, whatever
\* name was supplied, and leaves currentUser, page and the store unchanged; a
\* login that finds the document never ends in a session for a blocked regNo.
\* (The documents are those the program writes; a document normalizeStudentData
\* raises on is the subject of C15.)
C11_BlockedLoginRefused ==
  [][/\ (login.phase = "getDoc" /\ login' # login /\ LoginDocBlocked) =>
          /\ login'.phase = "idle"
          /\ login'.result \in {"blocked", "unexpected"}
          /\ StudentLoginRead => login'.result = "blocked"
          /\ UNCHANGED <<store, blobs, currentUser, page>>
     /\ (login.phase = "getDoc" /\ login'.result = "ok") =>
          /\ login.regNo \in DOMAIN store
          /\ store[login.regNo].isBlocked = Some(FALSE)
          /\ currentUser'.student.regNo = login.regNo]_vars

\* A login with the matching name was refused because the account is blocked.
C11_MatchingNameRefused ==
  /\ login.result = "blocked"
  /\ login.phase = "idle"
  /\ currentUser = NoUser
  /\ page = "StudentLogin"
  /\ "CS001" \in DOMAIN store
  /\ store["CS001"].isBlocked = Some(TRUE)
  /\ store["CS001"].name = Some("Asha")

\* ------------------------------------------------------------ C12
\* The document a registration is to store for a name and a regNo.
RegistrationDoc(name, regNo) ==
  [name |-> Some(name), regNo |-> Some(regNo), attendedClasses |-> Some(0),
   attendance |-> None, totalClasses |-> Some(10), pendingAssignments |-> Some(0),
   isBlocked |-> Some(FALSE), assignments |-> <<>>, messages |-> <<>>]

IsRegistrationDoc(d) == d = RegistrationDoc(Val(d.name), Val(d.regNo))

\* C12: a login with a non-blank name whose getDoc finds no document goes on to
\* setDoc; the setDoc stores exactly one document, keyed by the trimmed regNo,
\* with attendedClasses 0, totalClasses 10, pendingAssignments 0, isBlocked
\* false and no assignments or messages, and leaves every other document alone;
\* a snapshot of a store holding such a document gives a roster with exactly one
\* record of that regNo, carrying those values.
C12_RegistrationCreatesOneDocument ==
  [][/\ (login.phase = "getDoc" /\ login'.phase = "setDoc") =>
          /\ login.regNo \notin DOMAIN store
          /\ store' = store
     /\ (login.phase = "setDoc" /\ login'.phase = "written") =>
          /\ login.name # "" /\ login.regNo # ""
          /\ Trim(login.name) = login.name /\ Trim(login.regNo) = login.regNo
          /\ DOMAIN store' = DOMAIN store \cup {login.regNo}
          /\ \A k \in DOMAIN store \ {login.regNo} : store'[k] = store[k]
          /\ store'[login.regNo] = RegistrationDoc(login.name, login.regNo)
     /\ students' # students =>
          \A k \in DOMAIN store :
             IsRegistrationDoc(store[k]) /\ Val(store[k].regNo) = k =>
               /\ Cardinality({i \in 1..Len(students') : students'[i].regNo = k}) = 1
               /\ LET s == Find(students', k)
                  IN /\ s.name = Val(store[k].name)
                     /\ s.attendedClasses = 0 /\ s.totalClasses = 10
                     /\ s.pendingAssignments = 0 /\ s.isBlocked = FALSE
                     /\ s.assignments = <<>> /\ s.messages = <<>>]_vars

\* The roster shows the student this client registered, before the continuation
\* of the login has run.
C12_RegisteredStudentInRoster ==
  /\ login.phase = "written"
  /\ login.regNo = "CS001"
  /\ login.name = "Asha"
  /\ "CS001" \notin deletedDocs
  /\ pending = {}
  /\ Len(students) = 1
  /\ students[1] =
       [name |-> "Asha", regNo |-> "CS001", attendedClasses |-> 0, totalClasses |-> 10,
        pendingAssignments |-> 0, isBlocked |-> FALSE, assignments |-> <<>>,
        messages |-> <<>>]

\* ------------------------------------------------------------ C13
\* A student registered earlier, with no assignment yet.
InitNoAssignments ==
  /\ store = Put(EmptyStore, "CS001", ToDoc(NewStudent("Asha", "CS001")))
  /\ InitClient

\* Assignments created by this client's admin and by another admin client, and
\* submitted by the student on this client, in any interleaving.
NextSubmission ==
  \/ RunEffects
  \/ Snapshot
  \/ \E p \in {"StudentLogin", "AdminLogin"} : SelectRole(p)
  \/ StudentLoginCall("Asha", "CS001")
  \/ StudentLoginRead
  \/ handleAdminLogin(TRUE)
  \/ handleLogout
  \/ PageUncovered /\ \E s \in Range(students) : handleViewDetails(s)
  \/ handleToggleAssignmentForm
  \/ handleAssignmentDraftChange([title |-> "t", dueDate |-> "iso"])
  \/ CreateAssignmentCall
  \/ \E ok \in BOOLEAN : CreateAssignmentSettles(ok)
  \/ CreateAssignmentDone
  \/ /\ PageUncovered
     /\ \E a \in 1..MaxAssignments : handleOpenAssignmentModal("CS001", a)
  \/ handleCloseAssignmentModal
  \/ ChooseFile("small")
  \/ SubmitUploadCall
  \/ \E ok \in BOOLEAN : UploadStorageSettles(ok)
  \/ \E ok \in BOOLEAN : UploadDocSettles(ok)
  \/ SubmitUploadDone
  \/ RemoteCreateAssignment("CS001")

SpecSubmission == InitNoAssignments /\ [][NextSubmission]_vars

\* The assignments the store holds, of every student.
StoredAssignments ==
  UNION {Range(store[k].assignments) : k \in DOMAIN store}

\* C13: every stored assignment has a submissionUrl exactly when its status is
\* submitted, and a submissionName and a submittedAt exactly then too, whatever
\* creations and submissions were applied or rejected, in whatever order.
C13_SubmissionFieldsMatchStatus ==
  \A a \in StoredAssignments :
     /\ IsSome(a.submissionUrl) <=> a.status = "submitted"
     /\ IsSome(a.submissionName) <=> a.status = "submitted"
     /\ IsSome(a.submittedAt) <=> a.status = "submitted"

\* A submission was applied after another assignment was created: the student's
\* document holds a submitted assignment and a pending one.
C13_SubmittedNextToPending ==
  /\ blobs # {}
  /\ \E a \in StoredAssignments : a.status = "submitted" /\ a.submissionUrl = Some("url")
  /\ \E a \in StoredAssignments : a.status = "pending" /\ a.submissionUrl = None

\* ------------------------------------------------------------ C14
\* The forms of this client, filled in with valid and with invalid input.
NextValidation ==
  \/ RunEffects
  \/ Snapshot
  \/ \E p \in {"StudentLogin", "AdminLogin"} : SelectRole(p)
  \/ Back
  \/ \E i \in LoginForms : StudentLoginCall(i[1], i[2])
  \/ StudentLoginRead
  \/ StudentLoginFail
  \/ handleAdminLogin(TRUE)
  \/ PageUncovered /\ \E s \in Range(students) : handleViewDetails(s)
  \/ handleCloseModal
  \/ handleToggleAssignmentForm
  \/ \E d \in AssignmentDrafts : handleAssignmentDraftChange(d)
  \/ CreateAssignmentCall
  \/ \E ok \in BOOLEAN : CreateAssignmentSettles(ok)
  \/ CreateAssignmentDone
  \/ handleToggleMessageForm
  \/ \E d \in MessageDrafts : handleMessageDraftChange(d)
  \/ CreateMessageCall
  \/ \E ok \in BOOLEAN : CreateMessageSettles(ok)
  \/ CreateMessageDone

SpecValidation == InitNoAssignments /\ [][NextValidation]_vars

\* What a validation failure is to leave alone: the store, the remote calls in
\* flight, the roster, the selection state and the in-progress flags.
validationVars ==
  <<storeVars, students, selectionVars, attOp, delOp, upOp, asgOp, msgOp, writes,
    idsMade, login.phase, isSavingAssignment, isSavingMessage, isSavingAttendance,
    isUploadingAssignment>>

AssignmentDraftInvalid ==
  \/ Trim(assignmentDraft.title) = ""
  \/ assignmentDraft.dueDate = ""
  \/ DateThrows(assignmentDraft.dueDate)

MessageDraftInvalid ==
  Trim(messageDraft.title) = "" \/ Trim(messageDraft.body) = ""

\* C14: handleCreateAssignment on a draft with a blank title, no due date or a
\* due date that does not parse, handleCreateMessage on a draft with a blank
\* title or body, and handleStudentLogin on a blank name or regNo report an error
\* and change neither the store, the remote calls in flight, the roster, the
\* selection state nor the in-progress flags; a remote call is only issued for
\* input that passed validation.
C14_ValidationFailureStaysLocal ==
  [][/\ (CreateAssignmentCall /\ AssignmentDraftInvalid) =>
          /\ assignmentFormError' \in {"title", "dueDate", "invalid"}
          /\ UNCHANGED validationVars
     /\ (CreateMessageCall /\ MessageDraftInvalid) =>
          /\ messageFormError' \in {"title", "body"}
          /\ UNCHANGED validationVars
     /\ (login' # login /\ login'.result = "fill") =>
          /\ login'.phase = "idle"
          /\ UNCHANGED validationVars
     /\ (asgOp.phase = "idle" /\ asgOp'.phase # "idle") => ~AssignmentDraftInvalid
     /\ (msgOp.phase = "idle" /\ msgOp'.phase # "idle") => ~MessageDraftInvalid
     /\ (login.phase = "idle" /\ login'.phase # "idle") =>
          login'.name # "" /\ login'.regNo # "" /\ Trim(login'.regNo) = login'.regNo
    ]_vars

\* The login form was refused for a blank field, and then the assignment form
\* for a due date of blanks, which is not missing and does not parse.
C14_BlankDueDateRefused ==
  /\ login.result = "fill"
  /\ assignmentFormError = "invalid"
  /\ assignmentDraft.dueDate = "  "
  /\ asgOp.phase = "idle"
  /\ ~isSavingAssignment

\* ------------------------------------------------------------ C15
\* Raw documents as any writer of the collection may have stored them: number
\* fields absent (or of another type), NaN, negative, zero, within and beyond
\* the total; a legacy percentage; a counter; assignments with any status and
\* with due dates that are missing, valid or unparsable; a message whose date
\* is valid or unparsable.
RawTotals == {None, Some(NaN), Some(-1), Some(0), Some(4), Some(8)}

RawAttended == {None, Some(NaN), Some(-2), Some(0), Some(3), Some(12)}

RawPercentages ==
  {None, Some(NaN), Some(-10), Some(0), Some(35), Some(50), Some(100), Some(150)}

RawCounters == {None, Some(0), Some(5)}

RawAssignment(status, dueDate) ==
  [id |-> 7, dueDate |-> dueDate, status |-> status,
   submissionUrl |-> IF status = "submitted" THEN Some("url") ELSE None,
   submissionName |-> None, submittedAt |-> None]

RawAssignmentEntries ==
  {RawAssignment("pending", "iso"), RawAssignment("submitted", "iso"),
   RawAssignment("late", ""), RawAssignment("pending", "garbage")}

MaxRawEntries == 2

RawAssignmentLists ==
  UNION {[1..n -> RawAssignmentEntries] : n \in 0..MaxRawEntries}

RawMessageLists ==
  {<<>>, <<[id |-> 0, createdAt |-> "", sender |-> "admin"]>>,
   <<[id |-> 7, createdAt |-> "garbage", sender |-> "admin"]>>}

RawDocs ==
  {[name |-> Some("Asha"), regNo |-> None, attendedClasses |-> a, attendance |-> p,
    totalClasses |-> t, pendingAssignments |-> c, isBlocked |-> None,
    assignments |-> l, messages |-> m] :
     a \in RawAttended, p \in RawPercentages, t \in RawTotals, c \in RawCounters,
     l \in RawAssignmentLists, m \in RawMessageLists}

InitNormalize ==
  /\ store \in {Put(EmptyStore, "CS001", d) : d \in RawDocs}
  /\ InitClient

\* The snapshot callback applies normalizeStudentData to the stored document.
NextNormalize ==
  \/ SyncSnapshot
  \/ RunEffects

SpecNormalize == InitNormalize /\ [][NextNormalize]_vars

\* C15: normalizeStudentData returns a record for every raw document, so a
\* snapshot event that was delivered has published a roster with one record
\* for each stored document.
C15_NormalizeNeverRaises ==
  delivered > 0 =>
    /\ published = delivered
    /\ Len(students) = Cardinality(DOMAIN store)
    /\ \A k \in DOMAIN store : Find(students, k) # NullStudent

\* A snapshot was delivered and no roster came of it: normalizeStudentData raised
\* on the due date of an assignment.
C15_RaisedOnDueDate ==
  /\ delivered > 0
  /\ published = 0
  /\ students = <<>>
  /\ store["CS001"].messages = <<>>
  /\ \E i \in 1..Len(store["CS001"].assignments) :
       store["CS001"].assignments[i].dueDate = "garbage"

\* ------------------------------------------------------------ C16
\* a <= b on numbers: false when either is NaN.
Leq(a, b) == ~IsNaN(a) /\ ~IsNaN(b) /\ a <= b

\* C16: every record normalizeStudentData returned has totalClasses > 0 and
\* 0 <= attendedClasses <= totalClasses, whatever the document's attendedClasses,
\* attendance and totalClasses fields held.
C16_AttendanceWithinTotal ==
  \A i \in 1..Len(students) :
     /\ ~IsNaN(students[i].totalClasses) /\ students[i].totalClasses > 0
     /\ Leq(0, students[i].attendedClasses)
     /\ Leq(students[i].attendedClasses, students[i].totalClasses)

\* The roster holds a record whose attendedClasses is NaN, from a document that
\* stores NaN in attendedClasses.
C16_AttendedIsNaN ==
  /\ Len(students) = 1
  /\ IsNaN(students[1].attendedClasses)
  /\ store["CS001"].attendedClasses = Some(NaN)
  /\ store["CS001"].totalClasses = Some(8)

\* ------------------------------------------------------------ C17
\* The entries of a list whose status is not submitted, counted one by one.
RECURSIVE CountNotSubmitted(_)
CountNotSubmitted(list) ==
  IF list = <<>> THEN 0
  ELSE (IF Head(list).status = "submitted" THEN 0 ELSE 1) + CountNotSubmitted(Tail(list))

\* C17: in every record normalizeStudentData returned, pendingAssignments is the
\* number of assignments not submitted when the record has assignments, whatever
\* counter the document stores, and is the stored counter (0 when none is
\* stored) when the record has no assignment.
C17_PendingRecounted ==
  \A i \in 1..Len(students) :
     LET s == students[i]
         d == store[s.regNo]
     IN IF s.assignments # <<>>
        THEN s.pendingAssignments = CountNotSubmitted(s.assignments)
        ELSE s.pendingAssignments =
               (IF IsSome(d.pendingAssignments) THEN Val(d.pendingAssignments) ELSE 0)

\* The roster record keeps the stored counter 5 although its only assignment is
\* submitted.
C17_StoredCounterKept ==
  /\ Len(students) = 1
  /\ Len(students[1].assignments) = 1
  /\ students[1].assignments[1].status = "submitted"
  /\ students[1].pendingAssignments = 5
  /\ store["CS001"].pendingAssignments = Some(5)

\* ------------------------------------------------------------ C18
\* r is x = num / den rounded to the nearest integer, halves upwards:
\* r - 1/2 <= x < r + 1/2.
IsRounded(r, num, den) ==
  /\ 2 * den * r - den <= 2 * num
  /\ 2 * num < 2 * den * r + den

\* x clamped to [0, t].
IsClamped(result, x, t) ==
  \/ x < 0 /\ result = 0
  \/ x > t /\ result = t
  \/ 0 <= x /\ x <= t /\ result = x

IsNumber(o) == IsSome(o) /\ ~IsNaN(Val(o))

\* C18: in every record normalizeStudentData returned, with t its totalClasses:
\* a document with a number in attendedClasses gives that number clamped to
\* [0, t], whatever legacy percentage it stores; a document without a numeric
\* attendedClasses and with a legacy percentage p (a number) gives
\* round(p / 100 * t) clamped to [0, t]; a document with neither gives 0.
\* (A field that holds NaN is the subject of C16.)
C18_AttendedFromLegacyPercentage ==
  \A i \in 1..Len(students) :
     LET s == students[i]
         d == store[s.regNo]
         t == s.totalClasses
     IN /\ IsNumber(d.attendedClasses) =>
             IsClamped(s.attendedClasses, Val(d.attendedClasses), t)
        /\ (~IsSome(d.attendedClasses) /\ IsNumber(d.attendance)) =>
             \E r \in -2 * t .. 2 * t :
                /\ IsRounded(r, Val(d.attendance) * t, 100)
                /\ IsClamped(s.attendedClasses, r, t)
        /\ (~IsSome(d.attendedClasses) /\ ~IsSome(d.attendance)) =>
             s.attendedClasses = 0

\* A legacy percentage of 35 on the default total of 10 classes: 3.5 rounds to 4.
C18_HalfRoundedUp ==
  /\ Len(students) = 1
  /\ store["CS001"].attendedClasses = None
  /\ store["CS001"].attendance = Some(35)
  /\ students[1].totalClasses = 10
  /\ students[1].attendedClasses = 4

\* ------------------------------------------------------------ C19
\* The canonical records with the totalClasses of a roster record: attendedClasses
\* anywhere in 0..totalClasses.
CanonicalLike(s) ==
  {[s EXCEPT !.attendedClasses = a] : a \in 0..s.totalClasses}

\* C19: for every canonical record, getAttendancePercentage is
\* attendedClasses / totalClasses * 100 rounded to the nearest integer, lies in
\* 0..100, is 0 for attendedClasses = 0 and 100 for attendedClasses =
\* totalClasses; for a record with totalClasses = 0 it is 0.  It is a function
\* of the record alone.
C19_PercentageRounded ==
  \A i \in 1..Len(students) :
     \A c \in CanonicalLike(students[i]) :
        LET pct == getAttendancePercentage(c)
        IN /\ pct \in 0..100
           /\ IsRounded(pct, c.attendedClasses * 100, c.totalClasses)
           /\ c.attendedClasses = 0 => pct = 0
           /\ c.attendedClasses = c.totalClasses => pct = 100
           /\ getAttendancePercentage([c EXCEPT !.totalClasses = 0]) = 0
           /\ getAttendancePercentage(
                 [c EXCEPT !.totalClasses = 0, !.attendedClasses = 0]) = 0

\* The roster holds a student with 3 of 8 classes attended: 37.5 shows as 38.
C19_ThreeOfEight ==
  /\ Len(students) = 1
  /\ students[1].attendedClasses = 3
  /\ students[1].totalClasses = 8
  /\ getAttendancePercentage(students[1]) = 38

\* ------------------------------------------------------------ C20
MaxFallback == 3

\* C20: getPendingAssignmentsCount returns the fallback for an empty list, and
\* for any other list the number of entries not submitted, whatever the
\* fallback: 0 for a list of submitted assignments only.
C20_PendingCountOrFallback ==
  \A i \in 1..Len(students) :
     \A fallback \in 0..MaxFallback :
        LET assignments == students[i].assignments
            count == getPendingAssignmentsCount(assignments, fallback)
        IN /\ assignments = <<>> => count = fallback
           /\ assignments # <<>> => count = CountNotSubmitted(assignments)
           /\ (assignments # <<>> /\ \A j \in 1..Len(assignments) :
                                        assignments[j].status = "submitted")
                => count = 0

\* The roster holds a student with two assignments, one submitted and one whose
\* stored status was neither: one is counted, with no counter stored.
C20_OneOfTwoPending ==
  /\ Len(students) = 1
  /\ store["CS001"].pendingAssignments = None
  /\ Len(students[1].assignments) = 2
  /\ students[1].assignments[1].status = "submitted"
  /\ store["CS001"].assignments[2].status = "late"
  /\ students[1].pendingAssignments = 1

\* ------------------------------------------------------------ C21
\* The create write of this client's handleCreateAssignment is applied.
CreateAppliedStep == asgOp.phase = "sent" /\ asgOp'.phase = "applied"

\* C21: when a create-assignment write is applied, the stored list becomes the
\* list stored before it, unchanged, followed by the new assignment; so several
\* successful creations leave every created assignment stored, in creation
\* order, whether or not the roster had caught up with the store.
C21_CreateAppendsToStored ==
  [][CreateAppliedStep =>
       LET before == store[asgOp.regNo].assignments
           after == store'[asgOp.regNo].assignments
       IN /\ Len(after) = Len(before) + 1
          /\ SubSeq(after, 1, Len(before)) = before]_vars

\* Two creations were applied and the store holds only the second assignment:
\* the second was issued from the roster that did not show the first yet.
C21_EarlierCreateLost ==
  /\ asgOp.phase = "applied"
  /\ idsMade = 2
  /\ blobs = {}
  /\ Len(store["CS001"].assignments) = 1
  /\ store["CS001"].assignments[1].id = 2

\* ------------------------------------------------------------ C22
\* C22: a roster published for a snapshot holds one record for each document,
\* no two records with the same regNo, and each record's regNo is the key of
\* the document it was normalized from, also for a document whose regNo field is
\* absent or is not its key.
C22_RosterKeyedByDocumentId ==
  [][published' = published + 1 =>
       /\ Len(students') = Cardinality(DOMAIN store)
       /\ \A i, j \in 1..Len(students') :
            students'[i].regNo = students'[j].regNo => i = j
       /\ \A i \in 1..Len(students') :
            /\ students'[i].regNo \in DOMAIN store
            /\ students'[i] =
                 normalizeStudentData(store[students'[i].regNo], students'[i].regNo,
                                      GenId)]_vars

\* The roster shows a student under a regNo no document is stored under.
C22_RecordUnderForeignRegNo ==
  /\ published > 0
  /\ DOMAIN store = {"CS001"}
  /\ RosterRegNos(students) = {"CS003"}

\* ------------------------------------------------------------ C23
\* handleSubmitAssignmentUpload may write: an assignment is open, the student
\* who owns it is logged in, and a file of at most 10 MB is chosen.
UploadAllowed ==
  /\ HasModalData
  /\ currentUser.role = "student"
  /\ currentUser.student.regNo = assignmentModal.studentRegNo
  /\ assignmentUploadFile = "small"

C24_RegistrationNeverReplaces ==
  [][(login.phase = "setDoc" /\ login'.phase = "written") =>
       login.regNo \notin DOMAIN store]_vars

\* Ben's registration of CS001 has replaced the document another client stored
\* for Asha after Ben's getDoc: the roster still shows Asha.
C24_DocumentReplaced ==
  /\ login.phase = "written"
  /\ login.name = "Ben"
  /\ login.regNo = "CS001"
  /\ "CS001" \notin deletedDocs
  /\ store["CS001"].name = Some("Ben")
  /\ Len(students) = 1
  /\ students[1].name = "Asha"
  /\ students[1].regNo = "CS001"

\* ---------------------------------------------------------------------- C25
\* C25: in every state between a handler and the effects it queued, the page is
\* the student dashboard exactly when currentUser is a student session and the
\* admin dashboard exactly when currentUser is the admin marker, whatever the
\* interleaving of a login in flight with navigation, admin login, logout and
\* roster snapshots.
C25_PageMatchesSession ==
  pending = {} =>
    /\ (page = "StudentDashboard" <=> currentUser.role = "student")
    /\ (page = "AdminDashboard" <=> currentUser.role = "admin")

\* A student login is still waiting for its read while the user has gone back,
\* logged in as admin and received a roster: the session and the page are the
\* admin's.
C25_AdminWhileLoginInFlight ==
  /\ pending = {}
  /\ login.phase = "getDoc"
  /\ currentUser.role = "admin"
  /\ page = "AdminDashboard"
  /\ students # <<>>

\* ---------------------------------------------------------------------- C26
\* The roster's record of the session's student.
SessionRosterRecord == Find(students, currentUser.student.regNo)

\* C26: an effect pass that finds the session's student blocked in the roster, and
\* not blocked in the session, replaces the session record by the roster's and
\* leaves the page on the student dashboard; an effect pass ends a student session
\* only when the roster holds no record of the student.
C26_BlockedSessionStaysOpen ==
  [][(pending # {} /\ "session" \in pending /\ currentUser.role = "student") =>
       /\ (SessionRosterRecord # NullStudent /\ SessionRosterRecord.isBlocked
            /\ ~currentUser.student.isBlocked)
             => /\ currentUser' = StudentUser(SessionRosterRecord)
                /\ page' = page
                /\ page = "StudentDashboard"
       /\ currentUser'.role # "student" => SessionRosterRecord = NullStudent]_vars

\* Another client blocked the logged-in student, the roster was published and the
\* effects have run: the session holds the blocked record of the stored document.
C26_BlockedWhileLoggedIn ==
  /\ pending = {}
  /\ currentUser.role = "student"
  /\ page = "StudentDashboard"
  /\ currentUser.student.isBlocked
  /\ SessionRosterRecord = currentUser.student
  /\ currentUser.student.regNo \in DOMAIN store
  /\ store[currentUser.student.regNo].isBlocked = Some(TRUE)

\* ---------------------------------------------------------------------- C27
\* C27: every step that changes selectedStudent queues the form reset, and the
\* effect pass that runs it hides both forms, empties both drafts, clears both
\* form errors and sets both saving flags to false, whether or not a create write
\* is in flight.
C27_SelectionChangeResetsForms ==
  [][/\ selectedStudent' # selectedStudent => "forms" \in pending'
     /\ "forms" \in pending =>
          /\ ~isAssignmentFormVisible' /\ ~isMessageFormVisible'
          /\ assignmentDraft' = EmptyAssignmentDraft
          /\ messageDraft' = EmptyMessageDraft
          /\ assignmentFormError' = "none" /\ messageFormError' = "none"
          /\ ~isSavingAssignment' /\ ~isSavingMessage']_vars

\* The create-assignment write took effect and the roster was published before
\* the handler resumed: the reconciler replaced selectedStudent by the record
\* with the new assignment, and the forms were reset with the write in flight.
C27_ResetWhileCreateInFlight ==
  /\ pending = {}
  /\ asgOp.phase = "applied"
  /\ selectedStudent # NullStudent
  /\ selectedStudent.assignments # <<>>
  /\ ~isSavingAssignment
  /\ ~isAssignmentFormVisible
  /\ assignmentDraft = EmptyAssignmentDraft

\* ---------------------------------------------------------------------- C28
\* C28: with the attendance modal open, once the effects have run the keys of
\* attendanceSelections are the regNos of the roster; the effect pass after a
\* roster publication keeps the value of every student still listed, gives FALSE
\* to every new one and drops the others; handleOpenAttendanceModal opens the
\* modal only on a roster that is not empty, with every entry FALSE.
C28_SelectionsFollowRoster ==
  /\ [](pending = {} /\ isAttendanceModalOpen =>
          DOMAIN attendanceSelections = RosterRegNos(students))
  /\ [][/\ students' # students => "attendance" \in pending'
        /\ ("attendance" \in pending /\ isAttendanceModalOpen) =>
             /\ DOMAIN attendanceSelections' = RosterRegNos(students)
             /\ \A r \in RosterRegNos(students) :
                  attendanceSelections'[r] =
                    IF r \in DOMAIN attendanceSelections
                    THEN attendanceSelections[r] ELSE FALSE
        /\ (~isAttendanceModalOpen /\ isAttendanceModalOpen') =>
             /\ students # <<>>
             /\ attendanceSelections' = [r \in RosterRegNos(students) |-> FALSE]]_vars

\* The modal is open on an empty roster, which handleOpenAttendanceModal refuses:
\* the students it was opened on were deleted since, a roster without them was
\* published, and the effect pass dropped their entries.
C28_GoneStudentsDropped ==
  /\ pending = {}
  /\ isAttendanceModalOpen
  /\ deletedDocs # {}
  /\ students = <<>>
  /\ attendanceSelections = <<>>

\* ---------------------------------------------------------------------- C29
\* C29: the assignment form and the message form are never both visible; a step
\* that makes the assignment form visible hides the message form and empties the
\* message draft, and a step that makes the message form visible hides the
\* assignment form and empties the assignment draft.
C29_FormsExclusive ==
  /\ [](~(isAssignmentFormVisible /\ isMessageFormVisible))
  /\ [][/\ (~isAssignmentFormVisible /\ isAssignmentFormVisible') =>
             (~isMessageFormVisible' /\ messageDraft' = EmptyMessageDraft)
        /\ (~isMessageFormVisible /\ isMessageFormVisible') =>
             (~isAssignmentFormVisible' /\ assignmentDraft' = EmptyAssignmentDraft)]_vars

\* The message form was opened while a create-assignment write was in flight,
\* that is, over a visible assignment form holding a draft: the assignment form
\* is hidden and its draft is empty.
C29_MessageFormOverAssignmentForm ==
  /\ pending = {}
  /\ asgOp.phase = "sent"
  /\ selectedStudent # NullStudent
  /\ isMessageFormVisible
  /\ ~isAssignmentFormVisible
  /\ assignmentDraft = EmptyAssignmentDraft

\* ---------------------------------------------------------------------- C30
\* A document of another writer whose attendedClasses field holds the number NaN.
NaNDoc == [ToDoc(NewStudent("Asha", "CS001")) EXCEPT !.attendedClasses = Some(NaN)]

InitFixpoint ==
  /\ store \in {Put(EmptyStore, "CS001", ToDoc(NewStudent("Asha", "CS001"))),
                Put(EmptyStore, "CS001", NaNDoc)}
  /\ InitClient

\* Roster publications and what the five reconciling effects hold.
NextFixpoint ==
  \/ RunEffects
  \/ Snapshot
  \/ \E p \in {"StudentLogin", "AdminLogin"} : SelectRole(p)
  \/ StudentLoginCall("Asha", "CS001")
  \/ StudentLoginRead
  \/ handleAdminLogin(TRUE)
  \/ handleLogout
  \/ PageUncovered /\ \E s \in Range(students) : handleViewDetails(s)
  \/ handleCloseModal
  \/ PageUncovered /\ \E s \in Range(students) : handleRequestDeleteStudent(s)
  \/ handleCancelDeleteStudent
  \/ PageUncovered /\ handleOpenAttendanceModal
  \/ handleCloseAttendanceModal
  \/ /\ PageUncovered
     /\ \E a \in 1..MaxAssignments : handleOpenAssignmentModal("CS001", a)
  \/ handleCloseAssignmentModal
  \/ RemoteCreateAssignment("CS001")
  \/ RemoteToggleBlock("CS001")
  \/ RemoteDelete("CS001")
  \/ RemoteRegister("Ben", "CS002")

\* React flushes the passive effects of every render it committed.
SpecFixpoint == InitFixpoint /\ [][NextFixpoint]_vars /\ WF_vars(RunEffects)

\* What the five reconciling effects hold.
heldVars ==
  <<selectedStudent, currentUser, page, assignmentModal, assignmentUploadFile,
    assignmentUploadError, assignmentUploadSuccess, attendanceSelections,
    studentToDelete, deleteError, isDeletingStudent>>

\* Every held record agrees with the roster.
Reconciled ==
  /\ selectedStudent # NullStudent =>
       selectedStudent = Find(students, selectedStudent.regNo)
  /\ currentUser.role = "student" =>
       currentUser.student = Find(students, currentUser.student.regNo)
  /\ assignmentModal # NoModal =>
       /\ Find(students, assignmentModal.studentRegNo) # NullStudent
       /\ assignmentModal.assignmentId
            \in AssignmentIdsOf(Find(students, assignmentModal.studentRegNo))
  /\ isAttendanceModalOpen => DOMAIN attendanceSelections = RosterRegNos(students)
  /\ studentToDelete # NullStudent => studentToDelete.regNo \in RosterRegNos(students)

\* C30: with no further event the effect passes that follow a roster publication
\* come to an end, and a pass over held state that agrees with the roster changes
\* none of it.
C30_EffectsReachFixpoint ==
  /\ (pending # {}) ~> (pending = {})
  /\ [][(pending # {} /\ Reconciled) => UNCHANGED heldVars]_vars

\* The session of a student whose roster record has attendedClasses = NaN: the
\* session record equals the roster's in every field, and the session effect is
\* queued again by its own last pass.
C30_SessionEffectRequeued ==
  /\ pending = {"session"}
  /\ currentUser.role = "student"
  /\ page = "StudentDashboard"
  /\ IsNaN(currentUser.student.attendedClasses)
  /\ currentUser.student = Find(students, currentUser.student.regNo)

====
